---- MODULE Spec2Model ----
(***************************************************************************)
(* A state-machine model of pytential/symbolic/execution.py: the Geometry  *)
(* Collection (places mapping, named caches, lazy refinement), the Bound   *)
(* Expression (private caches, eval, get_modeled_cost) and the evaluation  *)
(* mappers that walk a compiled instruction sequence.                      *)
(***************************************************************************)
EXTENDS Integers, Sequences, FiniteSets, TLC

\* ------------------------------------------------------------------------
\* Bounds of the model
\* ------------------------------------------------------------------------
MaxColl == 2        \* geometry collections that can exist at once
MaxBound == 2       \* bound expressions that can exist at once
MaxTiming == 1      \* caller-owned timing_data dictionaries
MaxCount == 3       \* cap of the history counters
MaxOp == 1          \* MatVecOp objects that can exist at once
MaxBlockDim == 2    \* rows and columns of one block of a block matrix

CollIds == 1..MaxColl
BoundIds == 1..MaxBound
TimingIds == 1..MaxTiming
OpIds == 1..MaxOp

\* ------------------------------------------------------------------------
\* Geometries, place names and discretization stages
\* ------------------------------------------------------------------------
NoGeom == "none"
\* qbx: QBXLayerPotentialSource; qbxnr: the same with _disable_refinement;
\* lpot: another LayerPotentialSourceBase; tgt: TargetBase; discr: Discretization
Geoms == {"qbx", "qbxnr", "lpot", "tgt", "discr"}
Names == {"a", "b"}
\* tgt3: a TargetBase in three ambient dimensions (the other geometries live
\* in two); array: an object that is no geometry
Objects == Geoms \cup {"tgt3", "array"}
ambient_dim_of(g) == IF g = "tgt3" THEN 3 ELSE 2

\* the default tags are classes, the other keys are strings
DEFAULT_SOURCE == "DEFAULT_SOURCE"
DEFAULT_TARGET == "DEFAULT_TARGET"
Keys == Names \cup {DEFAULT_SOURCE, DEFAULT_TARGET, "1x", "for"}
IsStr(k) == k \notin {DEFAULT_SOURCE, DEFAULT_TARGET}

IsQBX(g) == g \in {"qbx", "qbxnr"}
IsLayerPotentialSourceBase(g) == g \in {"qbx", "qbxnr", "lpot"}
IsPotentialSource(g) == g \in {"qbx", "qbxnr", "lpot"}
IsTargetBase(g) == g \in {"tgt", "tgt3"}
IsDiscretization(g) == g = "discr"
DisableRefinement(g) == g = "qbxnr"

NoStage == "None"
QBX_SOURCE_STAGE1 == "stage1"
QBX_SOURCE_STAGE2 == "stage2"
QBX_SOURCE_QUAD_STAGE2 == "quad_stage2"
Stages == {QBX_SOURCE_STAGE1, QBX_SOURCE_STAGE2, QBX_SOURCE_QUAD_STAGE2}
\* the stage arguments the callers of the model pass
StageArgs == {NoStage, QBX_SOURCE_STAGE1, QBX_SOURCE_STAGE2}
StageIndex(s) ==
    CASE s = QBX_SOURCE_STAGE1 -> 1
      [] s = QBX_SOURCE_STAGE2 -> 2
      [] s = QBX_SOURCE_QUAD_STAGE2 -> 3

_GEOMETRY_COLLECTION_DISCR_CACHE_NAME == "refined_qbx_discrs"
CseCacheName == "cse"
BoundOpCacheName == "bound_op"
CacheNames == {_GEOMETRY_COLLECTION_DISCR_CACHE_NAME, CseCacheName, BoundOpCacheName}

\* ------------------------------------------------------------------------
\* Python dictionaries: a mapping is a function on the set of its keys
\* ------------------------------------------------------------------------
EmptyMap == [k \in {} |-> 0]
Has(m, k) == k \in DOMAIN m
Put(m, k, v) == [x \in (DOMAIN m) \cup {k} |-> IF x = k THEN v ELSE m[x]]

\* a places mapping is total on Keys, NoGeom marking a key that is absent
EmptyPlaces == [n \in Keys |-> NoGeom]
PlaceKeys(p) == {n \in Keys : p[n] # NoGeom}
\* dict.update(other)
Update(p, other) == [n \in Keys |-> IF other[n] # NoGeom THEN other[n] ELSE p[n]]
PlacesDicts == [Keys -> Objects \cup {NoGeom}]

\* ------------------------------------------------------------------------
\* DOF descriptors
\* ------------------------------------------------------------------------
QBX_DOF_NODE == "node"

DOFDescriptor(geometry, discr_stage) ==
    [isdd |-> TRUE, geometry |-> geometry, discr_stage |-> discr_stage,
     granularity |-> QBX_DOF_NODE]
\* a value that is not yet a descriptor: a bare name or default tag
Raw(geometry) ==
    [isdd |-> FALSE, geometry |-> geometry, discr_stage |-> NoStage,
     granularity |-> QBX_DOF_NODE]
as_dofdesc(desc) ==
    IF desc.isdd THEN desc ELSE DOFDescriptor(desc.geometry, NoStage)

NoAutoWhere == <<>>
\* auto_where is None (<<>>), one value (<<v>>) or a pair (<<s, t>>)
_prepare_auto_where(auto_where, hasPlaces, placesAutoWhere) ==
    LET pair ==
          IF auto_where = NoAutoWhere
          THEN IF ~hasPlaces
               THEN <<Raw(DEFAULT_SOURCE), Raw(DEFAULT_TARGET)>>
               ELSE placesAutoWhere
          ELSE IF Len(auto_where) = 2
               THEN auto_where
               ELSE <<auto_where[1], auto_where[1]>>
    IN <<as_dofdesc(pair[1]), as_dofdesc(pair[2])>>

\* ------------------------------------------------------------------------
\* Symbolic expressions and compiled instruction sequences
\* ------------------------------------------------------------------------
Unbound == -1               \* a name with no binding
CtxValues == {1, 2}         \* values a caller binds to the free variable x
VarNames == {"x", "p", "q", "r"}

cse_scope_EXPRESSION == "pymbolic_expression"
cse_scope_DISCRETIZATION == "pytential_discretization"
cse_scope_GLOBAL == "pymbolic_global"

Node(kind, name, scope, child, lhs, rhs) ==
    [kind |-> kind, name |-> name, scope |-> scope, child |-> child,
     lhs |-> lhs, rhs |-> rhs]

\* the expression nodes, structurally distinct, named by their index
Exprs == <<
    Node("var", "x", "", 0, 0, 0),                          \* 1: x
    Node("var", "p", "", 0, 0, 0),                          \* 2: p
    Node("cse", "", cse_scope_EXPRESSION, 1, 0, 0),         \* 3: cse(x), expression
    Node("cse", "", cse_scope_DISCRETIZATION, 1, 0, 0),     \* 4: cse(x), discretization
    Node("cse", "", cse_scope_GLOBAL, 1, 0, 0),             \* 5: cse(x), other scope
    Node("cse", "", cse_scope_EXPRESSION, 2, 0, 0),         \* 6: cse(p), expression
    Node("inverse", "", "", 1, 0, 0),                       \* 7: IterativeInverse
    Node("sum", "", "", 0, 5, 5),                           \* 8: cse(x) + cse(x), other scope
    Node("var", "q", "", 0, 0, 0),                          \* 9: q
    Node("sum", "", "", 0, 2, 9),                           \* 10: p + q
    Node("cse", "", cse_scope_EXPRESSION, 10, 0, 0),        \* 11: cse(p + q), expression
    Node("index", "x", "", 0, 1, 0),                        \* 12: x[0]
    Node("index", "x", "", 0, 2, 0)                         \* 13: x[1]
>>
ExprIds == 1..Len(Exprs)
CseIds == {e \in ExprIds : Exprs[e].kind = "cse"}

Assign(names, exprs) ==
    [kind |-> "assign", id |-> "", names |-> names, exprs |-> exprs,
     source |-> "", density |-> 0]
Potential(id, name, source, density) ==
    [kind |-> "potential", id |-> id, names |-> <<name>>, exprs |-> <<>>,
     source |-> source, density |-> density]

I1 == Potential("I1", "p", "a", 1)
I2 == Potential("I2", "q", "b", 1)
InsnIds == {"I1", "I2"}
InsnById(id) == IF id = "I1" THEN I1 ELSE I2

\* the instruction sequences a compilation can produce, with the name read
\* as the final result
Codes == <<
    [insns |-> <<Assign(<<"r">>, <<3>>)>>, result |-> "r"],         \* 1
    [insns |-> <<Assign(<<"r">>, <<4>>)>>, result |-> "r"],         \* 2
    [insns |-> <<Assign(<<"r">>, <<8>>)>>, result |-> "r"],         \* 3
    [insns |-> <<I1, Assign(<<"r">>, <<6>>)>>, result |-> "r"],     \* 4
    [insns |-> <<I1, I2, Assign(<<"r">>, <<11>>)>>, result |-> "r"],\* 5
    [insns |-> <<I1, I1>>, result |-> "p"],                         \* 6
    [insns |-> <<Assign(<<"r">>, <<7>>)>>, result |-> "r"],         \* 7
    [insns |-> <<Assign(<<"r">>, <<1>>)>>, result |-> "r"],         \* 8
    [insns |-> <<Assign(<<"p", "q">>, <<12, 13>>)>>, result |-> ""],\* 9
    [insns |-> <<Assign(<<"p", "q">>, <<13, 12>>)>>, result |-> ""],\* 10
    [insns |-> <<Assign(<<"p", "q">>, <<1, 3>>),
                 Assign(<<"r">>, <<10>>)>>, result |-> "r"]          \* 11
>>
CodeIds == 1..Len(Codes)
\* the result of a sequence when it is an object array of names (<<>> when
\* it is one name): 9 is [x[0], x[1]], 10 is [x[1], x[0]]
ObjArrayResult(c) == IF c \in {9, 10} THEN <<"p", "q">> ELSE <<>>
\* pytools.obj_array.is_obj_array
is_obj_array(names) == names # <<>>
PotentialInsns(c) ==
    {Codes[c].insns[i].id : i \in {j \in 1..Len(Codes[c].insns) :
                                        Codes[c].insns[j].kind = "potential"}}
\* the compiler's guarantee: no potential instruction occurs twice
WellCompiled(c) ==
    \A i, j \in 1..Len(Codes[c].insns) :
        (/\ i # j
         /\ Codes[c].insns[i].kind = "potential"
         /\ Codes[c].insns[j].kind = "potential")
        => Codes[c].insns[i].id # Codes[c].insns[j].id

\* ------------------------------------------------------------------------
\* State
\* ------------------------------------------------------------------------
VARIABLES
    dicts,      \* heap of places mappings: dict id -> places mapping
    colls,      \* GeometryCollection objects, by id
    bexprs,     \* BoundExpression objects, by id
    tds,        \* caller-owned timing_data dictionaries, by id
    ops,        \* MatVecOp objects, by id
    ghost,      \* history: how often the expensive collaborators ran
    last        \* what the last call did and returned

vars == <<dicts, colls, bexprs, tds, ops, ghost, last>>

NoColl == [live |-> FALSE, places |-> 0, auto_where |-> <<>>, caches |-> EmptyMap]
NoBound == [live |-> FALSE, places |-> 0, code |-> 0, caches |-> EmptyMap]

LiveColls == {g \in CollIds : colls[g].live}
LiveBounds == {b \in BoundIds : bexprs[b].live}
NoOp == [live |-> FALSE, bound_expr |-> 0, arg_name |-> "", total_dofs |-> 0,
         starts_and_ends |-> <<>>]
LiveOps == {m \in OpIds : ops[m].live}

\* ------------------------------------------------------------------------
\* GeometryCollection
\* ------------------------------------------------------------------------
\* the discretization objects handed out, told apart by who made them
Discr(geom, stage, coll, gen) ==
    [geom |-> geom, stage |-> stage, coll |-> coll, gen |-> gen]
density_discr(geom) == Discr(geom, "density", 0, 0)
SelfDiscr(geom) == Discr(geom, "self", 0, 0)
NoDiscr == Discr(NoGeom, "KeyError", 0, 0)

\* GeometryCollection.get_geometry; NoGeom stands for the KeyError
get_geometry(D, C, geometry) == D[C.places][geometry]

\* get_cache that hands out a new empty mapping at every call
get_cache_reset(caches, name) == Put(caches, name, EmptyMap)

\* get_cache of both owners: caches.setdefault(name, {})
get_cache(caches, name) ==
    IF Has(caches, name) THEN caches ELSE Put(caches, name, EmptyMap)

\* the refinement collaborator: fills the discretization cache of the
\* collection for the requested stage and, when lower is set, for the
\* stages below it that are not cached yet
_refine_for_global_qbx(cache, gid, lpot, geometry, discr_stage, gen, lower) ==
    LET fill == {s \in Stages :
                    \/ s = discr_stage
                    \/ /\ lower
                       /\ StageIndex(s) < StageIndex(discr_stage)
                       /\ ~Has(cache, <<geometry, s>>)}
    IN [k \in (DOMAIN cache) \cup {<<geometry, s>> : s \in fill} |->
            IF k[1] = geometry /\ k[2] \in fill
            THEN Discr(lpot, k[2], gid, gen)
            ELSE cache[k]]

\* _get_qbx_discretization without the look in the cache: the refinement
\* collaborator runs at every call
_get_qbx_discretization_nocache(D, C, gid, geometry, discr_stage, calls, lower) ==
    LET lpot_source == get_geometry(D, C, geometry)
        caches1 == get_cache(C.caches, _GEOMETRY_COLLECTION_DISCR_CACHE_NAME)
        cache == caches1[_GEOMETRY_COLLECTION_DISCR_CACHE_NAME]
        key == <<geometry, discr_stage>>
        refined == _refine_for_global_qbx(cache, gid, lpot_source, geometry,
                                          discr_stage, calls[key] + 1, lower)
    IN IF DisableRefinement(lpot_source)
       THEN [coll |-> C, ret |-> density_discr(lpot_source), refined |-> {}]
       ELSE [coll |-> [C EXCEPT !.caches =
                          Put(caches1, _GEOMETRY_COLLECTION_DISCR_CACHE_NAME, refined)],
             ret |-> refined[key], refined |-> {key}]

\* GeometryCollection._get_qbx_discretization; calls[k] is the number of
\* times the refinement collaborator ran before for the key k of this
\* collection, refined the keys it is run for by this call
_get_qbx_discretization(D, C, gid, geometry, discr_stage, calls, lower) ==
    LET lpot_source == get_geometry(D, C, geometry)
        caches1 == get_cache(C.caches, _GEOMETRY_COLLECTION_DISCR_CACHE_NAME)
        cache == caches1[_GEOMETRY_COLLECTION_DISCR_CACHE_NAME]
        key == <<geometry, discr_stage>>
        refined == _refine_for_global_qbx(cache, gid, lpot_source, geometry,
                                          discr_stage, calls[key] + 1, lower)
    IN IF DisableRefinement(lpot_source)
       THEN [coll |-> C, ret |-> density_discr(lpot_source), refined |-> {}]
       ELSE IF Has(cache, key)
       THEN [coll |-> [C EXCEPT !.caches = caches1], ret |-> cache[key],
             refined |-> {}]
       ELSE [coll |-> [C EXCEPT !.caches =
                          Put(caches1, _GEOMETRY_COLLECTION_DISCR_CACHE_NAME, refined)],
             ret |-> refined[key], refined |-> {key}]

\* GeometryCollection.get_discretization
get_discretization(D, C, gid, geometry, stageArg, calls, lower) ==
    LET discr_stage == IF stageArg = NoStage THEN QBX_SOURCE_STAGE1 ELSE stageArg
        discr == get_geometry(D, C, geometry)
    IN IF discr = NoGeom
       THEN [coll |-> C, ret |-> NoDiscr, refined |-> {}]
       ELSE IF IsQBX(discr)
       THEN _get_qbx_discretization(D, C, gid, geometry, discr_stage, calls, lower)
       ELSE IF IsLayerPotentialSourceBase(discr)
       THEN [coll |-> C, ret |-> density_discr(discr), refined |-> {}]
       ELSE [coll |-> C, ret |-> SelfDiscr(discr), refined |-> {}]

\* GeometryCollection.__init__ for a mapping: the object keeps the mapping it
\* is given (placesRef) and starts with no caches
GeometryCollection(placesRef, auto_where) ==
    [live |-> TRUE, places |-> placesRef,
     auto_where |-> _prepare_auto_where(auto_where, FALSE, <<>>),
     caches |-> EmptyMap]

\* str.isidentifier and keyword.iskeyword, on the spelling of a name
Letters == {"a", "b", "f", "o", "r", "x", "_"}
Digits == {"0", "1", "2", "3", "4", "5", "6", "7", "8", "9"}
Keywords == {"for", "if", "in", "is", "or"}
Spelling(name) ==
    CASE name = "a" -> <<"a">>
      [] name = "b" -> <<"b">>
      [] name = "1x" -> <<"1", "x">>
      [] name = "for" -> <<"f", "o", "r">>

\* _is_valid_identifier that forgets the reserved keywords
_is_valid_identifier_nokeyword(name) ==
    LET s == Spelling(name)
    IN /\ Len(s) > 0
       /\ s[1] \in Letters
       /\ \A i \in 1..Len(s) : s[i] \in Letters \cup Digits

\* _is_valid_identifier
_is_valid_identifier(name) ==
    LET s == Spelling(name)
        is_identifier == /\ Len(s) > 0
                         /\ s[1] \in Letters
                         /\ \A i \in 1..Len(s) : s[i] \in Letters \cup Digits
    IN is_identifier /\ name \notin Keywords

\* GeometryCollection.__init__, the two loops over self.places: the raised
\* exception, "" when there is none
validate_places(p) ==
    IF \E n \in PlaceKeys(p) :
          ~(IsPotentialSource(p[n]) \/ IsTargetBase(p[n]) \/ IsDiscretization(p[n]))
    THEN "TypeError"
    ELSE IF \E n \in PlaceKeys(p) : IsStr(n) /\ ~_is_valid_identifier(n)
    THEN "ValueError"
    ELSE ""

\* the places argument of the constructor: one object, a (source, target)
\* tuple or a mapping
ObjectArg(o) ==
    [form |-> "object", obj |-> o, src |-> NoGeom, tgt |-> NoGeom, map |-> EmptyPlaces]
TupleArg(s, t) ==
    [form |-> "tuple", obj |-> NoGeom, src |-> s, tgt |-> t, map |-> EmptyPlaces]
DictArg(m) ==
    [form |-> "dict", obj |-> NoGeom, src |-> NoGeom, tgt |-> NoGeom, map |-> m]

\* GeometryCollection.__init__ for every form of places.  places is what
\* self.places ends as (newRef is where it lives); an object that is stored
\* as self.places itself is no mapping, and itervalues fails on it.
GeometryCollection_init(placesArg, auto_where, newRef) ==
    LET aw == _prepare_auto_where(auto_where, FALSE, <<>>)
        isobj == placesArg.form = "object"
        o == placesArg.obj
        first ==
          IF isobj /\ IsQBX(o)
          THEN [places |-> [EmptyPlaces EXCEPT ![aw[1].geometry] = o],
                auto_source |-> aw[1], auto_target |-> aw[1]]
          ELSE IF isobj /\ IsTargetBase(o)
          THEN [places |-> [EmptyPlaces EXCEPT ![aw[2].geometry] = o],
                auto_source |-> aw[2], auto_target |-> aw[2]]
          ELSE [places |-> EmptyPlaces, auto_source |-> aw[1], auto_target |-> aw[2]]
        src == first.auto_source.geometry
        tgt == first.auto_target.geometry
        second ==
          IF isobj /\ (IsDiscretization(o) \/ IsPotentialSource(o))
          THEN [ismap |-> TRUE,
                places |-> [[first.places EXCEPT ![src] = o] EXCEPT ![tgt] = o]]
          ELSE IF placesArg.form = "tuple"
          THEN [ismap |-> TRUE,
                places |-> [[first.places EXCEPT ![src] = placesArg.src]
                               EXCEPT ![tgt] = placesArg.tgt]]
          ELSE IF placesArg.form = "dict"
          THEN [ismap |-> TRUE, places |-> placesArg.map]
          ELSE [ismap |-> FALSE, places |-> EmptyPlaces]
    IN [err |-> IF second.ismap THEN validate_places(second.places)
                ELSE "AttributeError",
        coll |-> [GeometryCollection(newRef, auto_where) EXCEPT
                     !.auto_where = <<first.auto_source, first.auto_target>>],
        places |-> second.places]

\* pytools.single_valued over the ambient dimensions of the geometries
DimError == 0
ambient_dim(D, C) ==
    LET dims == {ambient_dim_of(D[C.places][n]) : n \in PlaceKeys(D[C.places])}
    IN IF Cardinality(dims) = 1 THEN CHOOSE d \in dims : TRUE ELSE DimError

\* copy that hands the caches of the original to the new collection
NoPlacesArg == EmptyMap
copy_keepcaches(D, C, placesArg, auto_where, newRef) ==
    LET places == IF DOMAIN placesArg = {} THEN D[C.places] ELSE placesArg
    IN [coll |-> [GeometryCollection(newRef,
                    IF auto_where = NoAutoWhere THEN C.auto_where ELSE auto_where)
                  EXCEPT !.caches = C.caches],
        dicts |-> [D EXCEPT ![newRef] = places],
        err |-> validate_places(places)]

\* GeometryCollection.copy: places is a mapping or NoPlacesArg (None);
\* newRef is where places.copy() is allocated.  Returns the new object, the
\* new heap of mappings and the exception the constructor raises ("": none).
copy(D, C, placesArg, auto_where, newRef) ==
    LET places == IF DOMAIN placesArg = {} THEN D[C.places] ELSE placesArg
    IN [coll |-> GeometryCollection(newRef,
                    IF auto_where = NoAutoWhere THEN C.auto_where ELSE auto_where),
        dicts |-> [D EXCEPT ![newRef] = places],
        err |-> validate_places(places)]

\* merge in which the entries of self win on a name collision
merge_selfwins(D, C, other, isColl, newRef) ==
    LET truthy == isColl \/ PlaceKeys(other) # {}
        new_places == IF truthy THEN Update(other, D[C.places]) ELSE D[C.places]
    IN copy(D, C, new_places, NoAutoWhere, newRef)

\* merge that updates the mapping of self before it is copied
merge_inplace(D, C, other, isColl, newRef) ==
    LET truthy == isColl \/ PlaceKeys(other) # {}
        new_places == IF truthy THEN Update(D[C.places], other) ELSE D[C.places]
    IN copy([D EXCEPT ![C.places] = new_places], C, new_places, NoAutoWhere, newRef)

\* GeometryCollection.merge: other is a mapping (isColl = FALSE) or the
\* places mapping of another collection (isColl = TRUE)
merge(D, C, other, isColl, newRef) ==
    LET truthy == isColl \/ PlaceKeys(other) # {}
        new_places == IF truthy THEN Update(D[C.places], other) ELSE D[C.places]
    IN copy(D, C, new_places, NoAutoWhere, newRef)

\* ------------------------------------------------------------------------
\* Source geometry collaborators
\* ------------------------------------------------------------------------
PotVal(source, density) == (IF source = "lpot" THEN 20 ELSE 10) + density
Placeholder == 0
TimingOf(source, insn) == <<"timing", source, insn.id>>
CostOf(source, insn) == <<"cost", source, insn.id>>

\* ------------------------------------------------------------------------
\* Evaluation mappers.  An evaluation threads a record st through the
\* recursion: the mapper's fields, the objects it can change, the value of
\* the sub-expression just evaluated (val) and the raised exception (err).
\* ------------------------------------------------------------------------
Min(a, b) == IF a < b THEN a ELSE b
Ok(st) == st.err = ""
Raise(st, exc) == [st EXCEPT !.err = exc]
CollOf(st) == st.bexprs[st.b].places

\* a local variable: the value of s is computed once, then the statements
\* F that follow use it
Then(s, F(_)) == CHOOSE r \in {F(v) : v \in {s}} : TRUE

RECURSIVE Rec(_, _)

\* history: the child of the node e is evaluated once more in this call
Counted(e, st) == [st EXCEPT !.ncomp[e] = @ + 1]
\* history: a value computed for the node e was stored by this bound expression
Stored(e, st) == [st EXCEPT !.ghost.computed[st.b][e] = Min(@ + 1, MaxCount)]

\* map_common_subexpression without the cache lookup: the child is
\* evaluated and stored again at every call
map_common_subexpression_recompute(e, st) ==
    LET expr == Exprs[e]
        b == st.b
        g == CollOf(st)
        inExpr == expr.scope = cse_scope_EXPRESSION
        inDiscr == expr.scope = cse_scope_DISCRETIZATION
    IN IF ~(inExpr \/ inDiscr)
       THEN Rec(expr.child, Counted(e, st))
       ELSE Then(IF inExpr
                 THEN [st EXCEPT !.bexprs[b].caches = get_cache(@, CseCacheName)]
                 ELSE [st EXCEPT !.colls[g].caches = get_cache(@, CseCacheName)],
            LAMBDA st1 :
            Then(Rec(expr.child, Counted(e, st1)),
            LAMBDA st2 :
               IF ~Ok(st2)
               THEN st2
               ELSE IF inExpr
               THEN Stored(e, [st2 EXCEPT !.bexprs[b].caches[CseCacheName] =
                                              Put(@, expr.child, st2.val)])
               ELSE Stored(e, [st2 EXCEPT !.colls[g].caches[CseCacheName] =
                                              Put(@, expr.child, st2.val)])))

\* map_common_subexpression with the discretization scope served from the
\* cache of the bound expression
map_common_subexpression_onecache(e, st) ==
    LET expr == Exprs[e]
        b == st.b
        cached == expr.scope \in {cse_scope_EXPRESSION, cse_scope_DISCRETIZATION}
    IN IF ~cached
       THEN Rec(expr.child, Counted(e, st))
       ELSE Then([st EXCEPT !.bexprs[b].caches = get_cache(@, CseCacheName)],
            LAMBDA st1 :
            LET cache == st1.bexprs[b].caches[CseCacheName]
            IN IF Has(cache, expr.child)
               THEN [st1 EXCEPT !.val = cache[expr.child]]
               ELSE Then(Rec(expr.child, Counted(e, st1)),
                    LAMBDA st2 :
                       IF ~Ok(st2)
                       THEN st2
                       ELSE Stored(e, [st2 EXCEPT !.bexprs[b].caches[CseCacheName] =
                                                      Put(@, expr.child, st2.val)])))

\* EvaluationMapperBase.map_common_subexpression
map_common_subexpression(e, st) ==
    LET expr == Exprs[e]
        b == st.b
        g == CollOf(st)
        inExpr == expr.scope = cse_scope_EXPRESSION
        inDiscr == expr.scope = cse_scope_DISCRETIZATION
    IN IF ~(inExpr \/ inDiscr)
       THEN Rec(expr.child, Counted(e, st))
       ELSE Then(IF inExpr
                 THEN [st EXCEPT !.bexprs[b].caches = get_cache(@, CseCacheName)]
                 ELSE [st EXCEPT !.colls[g].caches = get_cache(@, CseCacheName)],
            LAMBDA st1 :
            LET cache == IF inExpr THEN st1.bexprs[b].caches[CseCacheName]
                                   ELSE st1.colls[g].caches[CseCacheName]
            IN IF Has(cache, expr.child)
               THEN [st1 EXCEPT !.val = cache[expr.child]]
               ELSE Then(Rec(expr.child, Counted(e, st1)),
                    LAMBDA st2 :
                       IF ~Ok(st2)
                       THEN st2
                       ELSE IF inExpr
                       THEN Stored(e, [st2 EXCEPT !.bexprs[b].caches[CseCacheName] =
                                                      Put(@, expr.child, st2.val)])
                       ELSE Stored(e, [st2 EXCEPT !.colls[g].caches[CseCacheName] =
                                                      Put(@, expr.child, st2.val)])))

\* EvaluationMapperBase.map_inverse: the memo is looked up in the cache of
\* the collection; on a miss the arguments of bind are evaluated, and
\* BoundExpression has no attribute iprec
map_inverse(e, st) ==
    LET expr == Exprs[e]
        g == CollOf(st)
    IN Then([st EXCEPT !.colls[g].caches = get_cache(@, BoundOpCacheName)],
       LAMBDA st1 :
          IF Has(st1.colls[g].caches[BoundOpCacheName], e)
          THEN Rec(expr.child, st1)   \* gmres(scipy_op, rhs) on the stored operator
          ELSE Raise(st1, "AttributeError"))

\* PymbolicEvaluationMapper.rec: dispatch on the kind of node
Rec(e, st) ==
    LET expr == Exprs[e]
    IN CASE expr.kind = "var" ->
              IF ~Has(st.env, expr.name)
              THEN Raise(st, "KeyError")
              ELSE [st EXCEPT !.val = st.env[expr.name]]
         [] expr.kind = "sum" ->
              Then(Rec(expr.lhs, st),
              LAMBDA s1 :
                 IF ~Ok(s1) THEN s1
                 ELSE Then(Rec(expr.rhs, s1),
                      LAMBDA s2 :
                         IF ~Ok(s2) THEN s2
                         ELSE [s2 EXCEPT !.val = s1.val + s2.val]))
         [] expr.kind = "index" ->
              \* a component of an object array bound in the context
              IF ~Has(st.env, expr.name)
              THEN Raise(st, "KeyError")
              ELSE [st EXCEPT !.val = st.env[expr.name][expr.lhs]]
         [] expr.kind = "cse" -> map_common_subexpression(e, st)
         [] expr.kind = "inverse" -> map_inverse(e, st)

\* EvaluationMapperBase.exec_assign: the (name, value) pairs of zip(names, exprs)
RECURSIVE EvalPairs(_, _, _)
EvalPairs(insn, i, st) ==
    IF i > Min(Len(insn.names), Len(insn.exprs)) \/ ~Ok(st)
    THEN st
    ELSE Then(Rec(insn.exprs[i], st),
         LAMBDA s1 :
            EvalPairs(insn, i + 1,
                IF Ok(s1)
                THEN [s1 EXCEPT !.assign = Append(@, <<insn.names[i], s1.val>>)]
                ELSE s1))
\* exec_assign that evaluates the first expression only
exec_assign_first(insn, st) ==
    Then(Rec(insn.exprs[1], [st EXCEPT !.assign = <<>>]),
         LAMBDA s1 : IF Ok(s1)
                     THEN [s1 EXCEPT !.assign = <<<<insn.names[1], s1.val>>>>]
                     ELSE s1)
exec_assign(insn, st) == EvalPairs(insn, 1, [st EXCEPT !.assign = <<>>])

\* exec_compute_potential_insn that tests timing_data for truth instead of
\* comparing it with None
EvaluationMapper_exec_compute_potential_insn_truthy(insn, st) ==
    LET source == get_geometry(st.dicts, st.colls[CollOf(st)], insn.source)
        return_timing_data == st.want /\ DOMAIN st.timing # {}
    IN IF source = NoGeom THEN Raise(st, "KeyError")
       ELSE IF ~IsPotentialSource(source) THEN Raise(st, "AttributeError")
       ELSE Then(Rec(insn.density,
                     [st EXCEPT !.asked = IF return_timing_data
                                          THEN @ \cup {insn.id} ELSE @]),
            LAMBDA s1 :
            LET result == <<<<insn.names[1], PotVal(source, s1.val)>>>>
            IN IF ~Ok(s1) THEN s1
               ELSE IF return_timing_data
               THEN IF Has(s1.timing, insn.id)
                    THEN Raise(s1, "AssertionError")
                    ELSE [s1 EXCEPT !.timing = Put(@, insn.id, TimingOf(source, insn)),
                                    !.assign = result]
               ELSE [s1 EXCEPT !.assign = result])

\* EvaluationMapper.exec_compute_potential_insn
EvaluationMapper_exec_compute_potential_insn(insn, st) ==
    LET source == get_geometry(st.dicts, st.colls[CollOf(st)], insn.source)
        return_timing_data == st.want
    IN IF source = NoGeom THEN Raise(st, "KeyError")
       ELSE IF ~IsPotentialSource(source) THEN Raise(st, "AttributeError")
       \* source.exec_compute_potential_insn(queue, insn, bound_expr,
       \*     evaluate, return_timing_data)
       ELSE Then(Rec(insn.density,
                     [st EXCEPT !.asked = IF return_timing_data
                                          THEN @ \cup {insn.id} ELSE @]),
            LAMBDA s1 :
            LET result == <<<<insn.names[1], PotVal(source, s1.val)>>>>
            IN IF ~Ok(s1) THEN s1
               ELSE IF return_timing_data
               THEN IF Has(s1.timing, insn.id)
                    THEN Raise(s1, "AssertionError")
                    ELSE [s1 EXCEPT !.timing = Put(@, insn.id, TimingOf(source, insn)),
                                    !.assign = result]
               ELSE [s1 EXCEPT !.assign = result])

\* the cost-model exec_compute_potential_insn recording the cost under the
\* name of the source instead of the instruction
CostModelMapper_exec_compute_potential_insn_bysource(insn, st) ==
    LET source == get_geometry(st.dicts, st.colls[CollOf(st)], insn.source)
    IN IF source = NoGeom THEN Raise(st, "KeyError")
       ELSE IF ~IsPotentialSource(source) THEN Raise(st, "AttributeError")
       ELSE IF Has(st.modeled_cost, insn.source)
       THEN Raise(st, "AssertionError")
       ELSE [st EXCEPT !.modeled_cost = Put(@, insn.source, CostOf(source, insn)),
                       !.assign = <<<<insn.names[1], Placeholder>>>>]

\* CostModelMapper.exec_compute_potential_insn
CostModelMapper_exec_compute_potential_insn(insn, st) ==
    LET source == get_geometry(st.dicts, st.colls[CollOf(st)], insn.source)
    IN IF source = NoGeom THEN Raise(st, "KeyError")
       ELSE IF ~IsPotentialSource(source) THEN Raise(st, "AttributeError")
       ELSE IF Has(st.modeled_cost, insn.id)
       THEN Raise(st, "AssertionError")
       ELSE [st EXCEPT !.modeled_cost = Put(@, insn.id, CostOf(source, insn)),
                       !.assign = <<<<insn.names[1], Placeholder>>>>]

exec_compute_potential_insn(insn, st) ==
    IF st.mapper = "eval"
    THEN EvaluationMapper_exec_compute_potential_insn(insn, st)
    ELSE CostModelMapper_exec_compute_potential_insn(insn, st)

\* the instruction sequence's execute(engine): the instructions in their
\* linear order, each binding its outputs, then the result
RECURSIVE BindAll(_, _, _)
BindAll(pairs, i, env) ==
    IF i > Len(pairs) THEN env
    ELSE BindAll(pairs, i + 1, Put(env, pairs[i][1], pairs[i][2]))

\* one turn of the loop: instruction i is executed and its outputs are bound
ExecStep(c, i, st) ==
    LET insn == Codes[c].insns[i]
    IN Then(IF insn.kind = "assign"
            THEN exec_assign(insn, st)
            ELSE exec_compute_potential_insn(insn, st),
       LAMBDA s1 :
          IF Ok(s1)
          THEN [s1 EXCEPT !.env = BindAll(s1.assign, 1, s1.env),
                          !.done = Append(@, i)]
          ELSE s1)
\* the end of the loop: the result is read from the bindings
ExecResult(c, st) ==
    IF is_obj_array(ObjArrayResult(c))
    THEN IF \E k \in 1..Len(ObjArrayResult(c)) : ~Has(st.env, ObjArrayResult(c)[k])
         THEN Raise(st, "KeyError")
         ELSE [st EXCEPT !.val = [k \in 1..Len(ObjArrayResult(c)) |->
                                     st.env[ObjArrayResult(c)[k]]]]
    ELSE IF ~Has(st.env, Codes[c].result)
    THEN Raise(st, "KeyError")
    ELSE [st EXCEPT !.val = st.env[Codes[c].result]]

RECURSIVE ExecFrom(_, _, _)
ExecFrom(c, i, st) ==
    IF ~Ok(st) THEN st
    ELSE IF i > Len(Codes[c].insns) THEN ExecResult(c, st)
    ELSE Then(ExecStep(c, i, st), LAMBDA s2 : ExecFrom(c, i + 1, s2))
execute(c, st) == ExecFrom(c, 1, st)

\* ------------------------------------------------------------------------
\* BoundExpression
\* ------------------------------------------------------------------------
\* BoundExpression.__init__: code is the compiled instruction sequence
BoundExpression(places, code) ==
    [live |-> TRUE, places |-> places, code |-> code, caches |-> EmptyMap]

NoTiming == 0       \* timing_data=None

\* the context of a caller that binds x, or nothing when x is Unbound
Context(x) == IF x = Unbound THEN EmptyMap ELSE [n \in {"x"} |-> x]

\* the engine a call creates: its context holds the caller's bindings only
Engine(mapper, b, context, timing, want) ==
    [mapper |-> mapper, b |-> b,
     env |-> context,
     dicts |-> dicts, colls |-> colls, bexprs |-> bexprs, ghost |-> ghost,
     timing |-> timing, want |-> want, modeled_cost |-> EmptyMap,
     asked |-> {}, ncomp |-> [e \in CseIds |-> 0],
     assign |-> <<>>, done |-> <<>>, val |-> 0, err |-> ""]

\* BoundExpression.eval
eval(b, context, td) ==
    Then(Engine("eval", b, context,
                IF td = NoTiming THEN EmptyMap ELSE tds[td],
                td # NoTiming),
         LAMBDA st : execute(bexprs[b].code, st))

\* BoundExpression.get_modeled_cost
get_modeled_cost(b, context) ==
    Then(Engine("cost", b, context, EmptyMap, FALSE),
         LAMBDA st : execute(bexprs[b].code, st))

\* ------------------------------------------------------------------------
\* BoundExpression.scipy_op and MatVecOp
\* ------------------------------------------------------------------------
\* discr.nnodes of the discretizations handed out
nnodes(discr) ==
    CASE discr.stage = QBX_SOURCE_STAGE2 -> 2
      [] discr.stage = QBX_SOURCE_QUAD_STAGE2 -> 3
      [] discr.geom = "lpot" -> 2
      [] OTHER -> 1

\* the domains argument: None, one value that is no list, or a list
NoDomains == [form |-> "none", items |-> <<>>]
DomainScalar(d) == [form |-> "scalar", items |-> <<d>>]
DomainList(items) == [form |-> "list", items |-> items]
NoneDomain == Raw("None")       \* a None entry of the list
Repeat(n, v) == [i \in 1..n |-> v]

\* DOFDescriptor.__init__ refuses a domain that is no tag and no string
unknown_domain_tag(d) == d = NoneDomain

\* _prepare_domains: a scalar is repeated as it is given; the entries of a
\* list go through as_dofdesc, which raises for None
_prepare_domains(nresults, domains, default_domain) ==
    IF domains.form = "none" THEN [err |-> "", domains |-> Repeat(nresults, default_domain)]
    ELSE IF domains.form = "scalar"
    THEN [err |-> "", domains |-> Repeat(nresults, domains.items[1])]
    ELSE IF \E i \in 1..Len(domains.items) : unknown_domain_tag(domains.items[i])
    THEN [err |-> "ValueError", domains |-> <<>>]
    ELSE IF Len(domains.items) # nresults
    THEN [err |-> "AssertionError", domains |-> <<>>]
    ELSE [err |-> "",
          domains |-> [i \in 1..Len(domains.items) |-> as_dofdesc(domains.items[i])]]

\* an entry that starts at 0 whatever came before
Entry_restart(acc, size) ==
    [acc EXCEPT !.starts_and_ends = Append(@, <<0, size>>),
                !.total_dofs = @ + size,
                !.sizes = Append(@, size)]

\* one more entry of the offset table
Entry(acc, size) ==
    [acc EXCEPT !.starts_and_ends = Append(@, <<acc.total_dofs, acc.total_dofs + size>>),
                !.total_dofs = @ + size,
                !.sizes = Append(@, size)]
\* the loop of scipy_op over the domains from position i on; acc holds the
\* collection as the lookups changed it, the keys refined, total_dofs, the
\* offset table, the sizes found and the exception raised
RECURSIVE SizesFrom(_, _, _, _, _, _, _)
SizesFrom(D, gid, calls, lower, doms, i, acc) ==
    IF i > Len(doms) \/ acc.err # "" THEN acc
    ELSE IF doms[i] = NoneDomain
    THEN Then(Entry(acc, 1),
              LAMBDA a : SizesFrom(D, gid, calls, lower, doms, i + 1, a))
    ELSE IF ~doms[i].isdd THEN [acc EXCEPT !.err = "AttributeError"]
    ELSE Then(get_discretization(D, acc.coll, gid, doms[i].geometry,
                                 doms[i].discr_stage, calls, lower),
              LAMBDA r :
                 IF r.ret = NoDiscr THEN [acc EXCEPT !.err = "KeyError"]
                 ELSE Then(Entry([acc EXCEPT !.coll = r.coll,
                                             !.refined = @ \cup r.refined,
                                             !.looked = Append(@, r.ret)],
                                 nnodes(r.ret)),
                           LAMBDA a : SizesFrom(D, gid, calls, lower, doms, i + 1, a)))

\* BoundExpression.scipy_op up to the construction of the operator
scipy_op(D, C, gid, code, domains, calls, lower) ==
    Then(_prepare_domains(
            IF is_obj_array(ObjArrayResult(code)) THEN Len(ObjArrayResult(code)) ELSE 1,
            domains, C.auto_where[2]),
         LAMBDA p :
            Then([coll |-> C, refined |-> {}, total_dofs |-> 0,
                  starts_and_ends |-> <<>>, sizes |-> <<>>, looked |-> <<>>,
                  domains |-> p.domains, err |-> p.err],
                 LAMBDA acc : SizesFrom(D, gid, calls, lower, p.domains, 1, acc)))

\* MatVecOp.__init__
MatVecOp(bound_expr, arg_name, total_dofs, starts_and_ends) ==
    [live |-> TRUE, bound_expr |-> bound_expr, arg_name |-> arg_name,
     total_dofs |-> total_dofs, starts_and_ends |-> starts_and_ends]
\* MatVecOp.shape
shape(op) == <<op.total_dofs, op.total_dofs>>

\* x[start:end] of a sequence indexed from 0
Slice(x, start, end) == SubSeq(x, start + 1, end)
\* an entry of cl.array.empty that was never written
Unwritten == 0

\* the loop that joins the result of matvec: joined[start:end] = res_i raises
\* when res_i has another length than the slice
RECURSIVE JoinFrom(_, _, _, _)
JoinFrom(result, starts_and_ends, i, acc) ==
    IF i > Min(Len(result), Len(starts_and_ends)) \/ acc.err # "" THEN acc
    ELSE IF Len(result[i]) # starts_and_ends[i][2] - starts_and_ends[i][1]
    THEN [acc EXCEPT !.err = "ValueError"]
    ELSE Then([acc EXCEPT
                 !.joined = [k \in DOMAIN @ |->
                               IF starts_and_ends[i][1] < k /\ k <= starts_and_ends[i][2]
                               THEN result[i][k - starts_and_ends[i][1]]
                               ELSE @[k]],
                 !.writes = [k \in DOMAIN @ |->
                               IF starts_and_ends[i][1] < k /\ k <= starts_and_ends[i][2]
                               THEN @[k] + 1 ELSE @[k]]],
              LAMBDA a : JoinFrom(result, starts_and_ends, i + 1, a))

\* segments cut at the lengths of the table, all from position 0
SplitArg_fromzero(op, x) ==
    IF Len(op.starts_and_ends) > 1
    THEN [i \in 1..Len(op.starts_and_ends) |->
            Slice(x, 0, op.starts_and_ends[i][2] - op.starts_and_ends[i][1])]
    ELSE x

\* the argument matvec passes on: the vector, or its segments
SplitArg(op, x) ==
    IF Len(op.starts_and_ends) > 1
    THEN [i \in 1..Len(op.starts_and_ends) |->
            Slice(x, op.starts_and_ends[i][1], op.starts_and_ends[i][2])]
    ELSE x
\* MatVecOp.matvec: st is the state the evaluation leaves
matvec(op, x) ==
    Then(SplitArg(op, x), LAMBDA arg :
    Then(eval(op.bound_expr, [n \in {op.arg_name} |-> arg], NoTiming), LAMBDA st :
       IF ~Ok(st)
       THEN [st |-> st, passed |-> arg, result |-> <<>>, writes |-> <<>>, err |-> st.err]
       ELSE IF Len(op.starts_and_ends) > 1
       THEN Then(JoinFrom(st.val, op.starts_and_ends, 1,
                          [joined |-> [k \in 1..op.total_dofs |-> Unwritten],
                           writes |-> [k \in 1..op.total_dofs |-> 0],
                           err |-> ""]),
                 LAMBDA j : [st |-> st, passed |-> arg, result |-> j.joined,
                             writes |-> j.writes, err |-> j.err])
       ELSE [st |-> st, passed |-> arg, result |-> st.val, writes |-> <<>>,
             err |-> ""]))

\* ------------------------------------------------------------------------
\* Matrix building: _bmat
\* ------------------------------------------------------------------------
\* a block is the scalar zero or a dense array whose entry (r, c) is told
\* apart from every other entry of the grid by the tag <<id, r, c>>
Dtypes == {"float64", "complex128"}
ZeroBlock == [zero |-> TRUE, rows |-> 0, cols |-> 0, dtype |-> "int", id |-> 0]
ArrayBlock(rows, cols, dtype, id) ==
    [zero |-> FALSE, rows |-> rows, cols |-> cols, dtype |-> dtype, id |-> id]
\* pytential.symbolic.matrix.is_zero
is_zero(block) == block.zero
ZeroEntry == <<>>
EntryOf(block, r, c) == IF is_zero(block) THEN ZeroEntry ELSE <<block.id, r, c>>

\* pytools.single_valued: the one value of a non-empty iterable
single_valued(items) ==
    IF items = <<>> THEN [err |-> "ValueError", val |-> 0]
    ELSE IF \E i \in 1..Len(items) : items[i] # items[1]
    THEN [err |-> "AssertionError", val |-> 0]
    ELSE [err |-> "", val |-> items[1]]

\* the items of seq that satisfy keep, in order
RECURSIVE Filter(_, _)
Filter(seq, keep) ==
    IF seq = <<>> THEN <<>>
    ELSE IF keep[1] THEN <<seq[1]>> \o Filter(Tail(seq), Tail(keep))
    ELSE Filter(Tail(seq), Tail(keep))

\* blocks is a sequence of rows; blocks.shape
nrows(blocks) == Len(blocks)
ncolumns(blocks) == Len(blocks[1])

\* the generator of shape[0] over the non-zero blocks of block-row ibrow
RowHeights(blocks, ibrow) ==
    Filter([j \in 1..ncolumns(blocks) |-> blocks[ibrow][j].rows],
           [j \in 1..ncolumns(blocks) |-> ~is_zero(blocks[ibrow][j])])
\* the generator of shape[1] over the non-zero blocks of block-column ibcol
ColumnWidths(blocks, ibcol) ==
    Filter([i \in 1..nrows(blocks) |-> blocks[i][ibcol].cols],
           [i \in 1..nrows(blocks) |-> ~is_zero(blocks[i][ibcol])])

\* a list of the sizes themselves in place of their running sums
RECURSIVE cumsum_flat(_, _, _)
cumsum_flat(sizes, i, acc) ==
    IF i > Len(sizes) \/ acc.err # "" THEN acc
    ELSE IF sizes[i].err # "" THEN [acc EXCEPT !.err = sizes[i].err]
    ELSE Then([acc EXCEPT !.starts = Append(@, sizes[i].val)],
              LAMBDA a : cumsum_flat(sizes, i + 1, a))

\* np.cumsum([0] + sizes) with the first exception of the list of sizes
RECURSIVE cumsum(_, _, _)
cumsum(sizes, i, acc) ==
    IF i > Len(sizes) \/ acc.err # "" THEN acc
    ELSE IF sizes[i].err # "" THEN [acc EXCEPT !.err = sizes[i].err]
    ELSE Then([acc EXCEPT !.starts = Append(@, @[Len(@)] + sizes[i].val)],
              LAMBDA a : cumsum(sizes, i + 1, a))

\* np.find_common_type(dtypes, []) as the dtype of np.zeros: float64 when
\* there is no array type
find_common_type(dtypes) ==
    IF \E i \in 1..Len(dtypes) : dtypes[i] = "complex128" THEN "complex128"
    ELSE "float64"

\* the loop of _bmat with every array block assigned transposed
RECURSIVE AssignFrom_transposed(_, _, _, _, _)
AssignFrom_transposed(blocks, brs, bcs, k, acc) ==
    IF k >= nrows(blocks) * ncolumns(blocks) \/ acc.err # "" THEN acc
    ELSE LET ibcol == (k \div nrows(blocks)) + 1
             ibrow == (k % nrows(blocks)) + 1
             block == blocks[ibrow][ibcol]
         IN Then([acc EXCEPT !.at =
                      [p \in DOMAIN @ |->
                         IF /\ brs[ibrow] < p[1] /\ p[1] <= brs[ibrow + 1]
                            /\ bcs[ibcol] < p[2] /\ p[2] <= bcs[ibcol + 1]
                         THEN EntryOf(block, p[2] - bcs[ibcol], p[1] - brs[ibrow])
                         ELSE @[p]]],
                 LAMBDA a : AssignFrom_transposed(blocks, brs, bcs, k + 1, a))

\* the loop of _bmat from block k on, column by column: the slice
\* result[brs[ibrow]:brs[ibrow+1], bcs[ibcol]:bcs[ibcol+1]] = block; a
\* zero is broadcast, an array has the shape of its slice
RECURSIVE AssignFrom(_, _, _, _, _)
AssignFrom(blocks, brs, bcs, k, acc) ==
    IF k >= nrows(blocks) * ncolumns(blocks) \/ acc.err # "" THEN acc
    ELSE LET ibcol == (k \div nrows(blocks)) + 1
             ibrow == (k % nrows(blocks)) + 1
             block == blocks[ibrow][ibcol]
         IN Then([acc EXCEPT !.at =
                      [p \in DOMAIN @ |->
                         IF /\ brs[ibrow] < p[1] /\ p[1] <= brs[ibrow + 1]
                            /\ bcs[ibcol] < p[2] /\ p[2] <= bcs[ibcol + 1]
                         THEN EntryOf(block, p[1] - brs[ibrow], p[2] - bcs[ibcol])
                         ELSE @[p]]],
                 LAMBDA a : AssignFrom(blocks, brs, bcs, k + 1, a))

NoMatrix(err) == [err |-> err, shape |-> <<0, 0>>, dtype |-> "", at |-> <<>>]

\* _bmat
_bmat(blocks, dtypes) ==
    Then(cumsum([i \in 1..nrows(blocks) |-> single_valued(RowHeights(blocks, i))],
                1, [starts |-> <<0>>, err |-> ""]),
         LAMBDA brs :
    IF brs.err # "" THEN NoMatrix(brs.err)
    ELSE
    Then(cumsum([j \in 1..ncolumns(blocks) |-> single_valued(ColumnWidths(blocks, j))],
                1, [starts |-> <<0>>, err |-> ""]),
         LAMBDA bcs :
    IF bcs.err # "" THEN NoMatrix(bcs.err)
    ELSE
    Then(AssignFrom(blocks, brs.starts, bcs.starts, 0,
                    [err |-> "",
                     at |-> [p \in (1..brs.starts[Len(brs.starts)])
                                     \X (1..bcs.starts[Len(bcs.starts)]) |-> ZeroEntry]]),
         LAMBDA r :
    IF r.err # "" THEN NoMatrix(r.err)
    ELSE [err |-> "",
          shape |-> <<brs.starts[Len(brs.starts)], bcs.starts[Len(bcs.starts)]>>,
          dtype |-> find_common_type(dtypes),
          brs |-> brs.starts, bcs |-> bcs.starts,
          at |-> r.at])))

\* the dtypes build_matrix collects: those of the array blocks, column by
\* column
RECURSIVE DtypesFrom(_, _)
DtypesFrom(blocks, k) ==
    IF k >= nrows(blocks) * ncolumns(blocks) THEN <<>>
    ELSE LET block == blocks[(k % nrows(blocks)) + 1][(k \div nrows(blocks)) + 1]
         IN (IF is_zero(block) THEN <<>> ELSE <<block.dtype>>)
            \o DtypesFrom(blocks, k + 1)

\* _prepare_expr: the (source, target) pair handed to ToTargetTagger
_prepare_expr(C, auto_where) ==
    _prepare_auto_where(auto_where, TRUE, C.auto_where)

\* build_matrix for one expression and one input expression once places is
\* a collection; block is what the matrix builder returns for the pair
build_matrix(D, C, gid, calls, auto_where, domains, block) ==
    Then(_prepare_expr(C, auto_where), LAMBDA tagged :
    Then(_prepare_domains(1, domains, C.auto_where[1]), LAMBDA p :
       IF p.err # ""
       THEN [coll |-> C, refined |-> {}, tagged |-> tagged, err |-> p.err,
             ret |-> NoMatrix(p.err)]
       ELSE IF ~p.domains[1].isdd
       THEN [coll |-> C, refined |-> {}, tagged |-> tagged, err |-> "AttributeError",
             ret |-> NoMatrix("AttributeError")]
       ELSE IF get_geometry(D, C, p.domains[1].geometry) = NoGeom
       THEN [coll |-> C, refined |-> {}, tagged |-> tagged, err |-> "KeyError",
             ret |-> NoMatrix("KeyError")]
       ELSE Then(get_discretization(D, C, gid, p.domains[1].geometry,
                                    p.domains[1].discr_stage, calls, FALSE),
                 LAMBDA r :
                    Then(_bmat(<<<<block>>>>, DtypesFrom(<<<<block>>>>, 0)),
                         LAMBDA m : [coll |-> r.coll, refined |-> r.refined,
                                     tagged |-> tagged, err |-> m.err,
                                     ret |-> m]))))

\* ------------------------------------------------------------------------
\* DOFDescriptor objects as primitives.py builds them
\* ------------------------------------------------------------------------
\* values a caller passes as domain: a string, one of the classes
\* DEFAULT_SOURCE and DEFAULT_TARGET, an instance of DOMAIN_TAG or of one of
\* its subclasses, None, or something else
StrValue(v) == [kind |-> "str", cls |-> "str", v |-> v, of |-> ""]
ClassValue(c) == [kind |-> "class", cls |-> "type", v |-> c, of |-> ""]
\* the tag of a DOMAIN_TAG is the value v of kind of
DOMAIN_TAG(cls, tag) == [kind |-> "tag", cls |-> cls, v |-> tag.v, of |-> tag.kind]
NoneValue == [kind |-> "none", cls |-> "NoneType", v |-> "None", of |-> ""]
OtherValue == [kind |-> "other", cls |-> "int", v |-> "5", of |-> ""]
TagClasses == {"DOMAIN_TAG", "QBX_DOMAIN_STAGE1", "QBX_DOMAIN_STAGE2",
               "QBX_DOMAIN_QUAD_STAGE2"}
QBX_DOF_CENTER == "center"
QBX_DOF_ELEMENT == "element"
NoGranularity == "None"

\* DOMAIN_TAG.__eq__ and DOMAIN_TAG.__hash__
DOMAIN_TAG_eq(a, b) == a.cls = b.cls /\ a.v = b.v /\ a.of = b.of
DOMAIN_TAG_hash(a) == <<a.cls, a.v, a.of>>

\* DOFDescriptor.__init__; oid tells the objects apart
DOFDescriptor_init(domain, granularity, oid) ==
    LET dom == IF domain = ClassValue(DEFAULT_SOURCE) \/ domain = ClassValue(DEFAULT_TARGET)
                  \/ domain.kind = "str"
               THEN DOMAIN_TAG("DOMAIN_TAG", domain)
               ELSE domain
        gran == IF granularity = NoGranularity THEN QBX_DOF_NODE ELSE granularity
    IN IF ~(dom.kind = "tag" /\ dom.cls \in TagClasses)
       THEN [err |-> "ValueError", obj |-> [kind |-> "none"]]
       ELSE IF gran \notin {QBX_DOF_NODE, QBX_DOF_CENTER, QBX_DOF_ELEMENT}
       THEN [err |-> "ValueError", obj |-> [kind |-> "none"]]
       ELSE [err |-> "",
             obj |-> [kind |-> "dofdesc", cls |-> "DOFDescriptor", oid |-> oid,
                      domain |-> dom, granularity |-> gran]]

\* object identity in place of DOFDescriptor.__eq__
DOFDescriptor_is(a, b) == a.oid = b.oid
\* DOFDescriptor.__eq__
DOFDescriptor_eq(a, b) ==
    /\ a.cls = b.cls
    /\ DOMAIN_TAG_eq(a.domain, b.domain)
    /\ a.granularity = b.granularity
\* DOFDescriptor.__hash__: the tuple that is hashed
DOFDescriptor_hash(a) == <<a.cls, DOMAIN_TAG_hash(a.domain), a.granularity>>

\* as_dofdesc on these values
as_dofdesc_value(desc, oid) ==
    IF desc.kind = "dofdesc" THEN [err |-> "", obj |-> desc]
    ELSE DOFDescriptor_init(desc, NoGranularity, oid)

\* ------------------------------------------------------------------------
\* Elementwise reductions
\* ------------------------------------------------------------------------
\* a mesh is its sequence of element groups; the nodes of a discretization
\* are stored group after group, element after element
Group(nelements, nunit_nodes) == [nelements |-> nelements, nunit_nodes |-> nunit_nodes]
RECURSIVE element_nr_base(_, _)
element_nr_base(groups, g) ==
    IF g <= 1 THEN 0 ELSE element_nr_base(groups, g - 1) + groups[g - 1].nelements
RECURSIVE node_nr_base(_, _)
node_nr_base(groups, g) ==
    IF g <= 1 THEN 0
    ELSE node_nr_base(groups, g - 1) + groups[g - 1].nelements * groups[g - 1].nunit_nodes
mesh_nelements(groups) == element_nr_base(groups, Len(groups) + 1)
discr_nnodes(groups) == node_nr_base(groups, Len(groups) + 1)

\* group.view(x) of a discretization group: the position in x of node idof
\* of element el of group g
group_view(groups, g, el, idof) ==
    node_nr_base(groups, g) + (el - 1) * groups[g].nunit_nodes + idof
\* a view that takes the elements of every group from the start of the array
mesh_el_view_local(groups, g, el) == el
\* mesh_el_view: the position in the global array of element el of group g
mesh_el_view(groups, g, el) == element_nr_base(groups, g) + el

\* sum, min or max of a non-empty sequence of numbers
RECURSIVE reduction(_, _)
reduction(reduction_name, vals) ==
    IF Len(vals) = 1 THEN vals[1]
    ELSE LET rest == reduction(reduction_name, Tail(vals))
         IN CASE reduction_name = "sum" -> vals[1] + rest
              [] reduction_name = "min" -> IF vals[1] <= rest THEN vals[1] ELSE rest
              [] OTHER -> IF vals[1] >= rest THEN vals[1] ELSE rest

\* reduction(jdof, operand[el, jdof]) for element el of group g
ReduceElement(reduction_name, groups, g, el, operand) ==
    reduction(reduction_name,
              [j \in 1..groups[g].nunit_nodes |-> operand[group_view(groups, g, el, j)]])

\* node_knl on one group: result[el, idof] = reduction(jdof, operand[el, jdof])
node_knl(reduction_name, groups, g, operand, result) ==
    [k \in DOMAIN result |->
        IF \E el \in 1..groups[g].nelements, idof \in 1..groups[g].nunit_nodes :
              k = group_view(groups, g, el, idof)
        THEN ReduceElement(reduction_name, groups, g,
                           CHOOSE el \in 1..groups[g].nelements :
                              \E idof \in 1..groups[g].nunit_nodes :
                                 k = group_view(groups, g, el, idof),
                           operand)
        ELSE result[k]]
\* element_knl on one group: result[el] = reduction(jdof, operand[el, jdof])
element_knl(reduction_name, groups, g, operand, result) ==
    [k \in DOMAIN result |->
        IF \E el \in 1..groups[g].nelements : k = mesh_el_view(groups, g, el)
        THEN ReduceElement(reduction_name, groups, g,
                           CHOOSE el \in 1..groups[g].nelements :
                              k = mesh_el_view(groups, g, el),
                           operand)
        ELSE result[k]]

\* _reduce: the kernel runs on group after group into an array that starts
\* unwritten
RECURSIVE _reduce(_, _, _, _, _, _)
_reduce(reduction_name, groups, granularity, operand, igrp, result) ==
    IF igrp > Len(groups) THEN result
    ELSE Then(IF granularity = QBX_DOF_NODE
              THEN node_knl(reduction_name, groups, igrp, operand, result)
              ELSE element_knl(reduction_name, groups, igrp, operand, result),
              LAMBDA r : _reduce(reduction_name, groups, granularity, operand, igrp + 1, r))

\* a reduction that takes every granularity but the element one as the
\* node one
_map_elementwise_reduction_nodeelse(reduction_name, groups, granularity, operand) ==
    IF Len(operand) # discr_nnodes(groups)
    THEN [err |-> "AssertionError", result |-> <<>>]
    ELSE IF granularity = QBX_DOF_ELEMENT
    THEN [err |-> "",
          result |-> _reduce(reduction_name, groups, granularity, operand, 1,
                             [k \in 1..mesh_nelements(groups) |-> Unwritten])]
    ELSE [err |-> "",
          result |-> _reduce(reduction_name, groups, QBX_DOF_NODE, operand, 1,
                             [k \in 1..discr_nnodes(groups) |-> Unwritten])]
\* EvaluationMapperBase._map_elementwise_reduction on a discretization with
\* these groups and an operand that has been evaluated
_map_elementwise_reduction(reduction_name, groups, granularity, operand) ==
    IF Len(operand) # discr_nnodes(groups)
    THEN [err |-> "AssertionError", result |-> <<>>]
    ELSE IF granularity = QBX_DOF_NODE
    THEN [err |-> "",
          result |-> _reduce(reduction_name, groups, granularity, operand, 1,
                             [k \in 1..discr_nnodes(groups) |-> Unwritten])]
    ELSE IF granularity = QBX_DOF_ELEMENT
    THEN [err |-> "",
          result |-> _reduce(reduction_name, groups, granularity, operand, 1,
                             [k \in 1..mesh_nelements(groups) |-> Unwritten])]
    ELSE [err |-> "ValueError", result |-> <<>>]

\* ------------------------------------------------------------------------
\* IntG
\* ------------------------------------------------------------------------
\* a kernel as to_kernel_and_args returns it: the names of get_args() and
\* get_source_args(), and the names of the arguments that came bound with it
Kernel(names, bound) == [names |-> names, bound |-> bound]
NoArguments == [none |-> TRUE, args |-> EmptyMap]
Arguments(names, origin) == [none |-> FALSE, args |-> [n \in names |-> origin]]
ForcedLimits == {"-1", "+1", "-2", "+2", "avg", "None"}
\* the order in which a dictionary of these names is walked
ArgOrder == <<"a", "k", "zz">>

\* the loop over kernel_arguments_2: a name already in the mapping is an error
RECURSIVE AddBound(_, _, _)
AddBound(kernel_arguments, bound, i) ==
    IF i > Len(ArgOrder) THEN [err |-> "", args |-> kernel_arguments]
    ELSE IF ArgOrder[i] \notin bound THEN AddBound(kernel_arguments, bound, i + 1)
    ELSE IF Has(kernel_arguments, ArgOrder[i])
    THEN [err |-> "ValueError", args |-> kernel_arguments]
    ELSE Then(Put(kernel_arguments, ArgOrder[i], "kernel"),
              LAMBDA m : AddBound(m, bound, i + 1))
\* the loop over kwargs: a name already in the mapping, or one that is no
\* argument of the kernel, is an error
RECURSIVE AddKeywords(_, _, _, _)
AddKeywords(kernel_arguments, kwargs, kernel_arg_names, i) ==
    IF i > Len(ArgOrder) THEN [err |-> "", args |-> kernel_arguments]
    ELSE IF ArgOrder[i] \notin kwargs
    THEN AddKeywords(kernel_arguments, kwargs, kernel_arg_names, i + 1)
    ELSE IF Has(kernel_arguments, ArgOrder[i])
    THEN [err |-> "ValueError", args |-> kernel_arguments]
    ELSE IF ArgOrder[i] \notin kernel_arg_names
    THEN [err |-> "TypeError", args |-> kernel_arguments]
    ELSE Then(Put(kernel_arguments, ArgOrder[i], "keyword"),
              LAMBDA m : AddKeywords(m, kwargs, kernel_arg_names, i + 1))

NoIntG(err) == [err |-> err, kernel_arguments |-> EmptyMap, qbx_forced_limit |-> ""]
\* IntG.__init__
IntG_init(kernel, qbx_forced_limit, kernel_arguments, kwargs) ==
    LET given == IF kernel_arguments.none THEN EmptyMap ELSE kernel_arguments.args
        bound == AddBound(given, kernel.bound, 1)
    IN IF bound.err # "" THEN NoIntG(bound.err)
       ELSE IF qbx_forced_limit \notin ForcedLimits THEN NoIntG("ValueError")
       ELSE LET all == AddKeywords(bound.args, kwargs, kernel.names, 1)
                missing_args == kernel.names \ DOMAIN all.args
            IN IF all.err # "" THEN NoIntG(all.err)
               ELSE IF missing_args # {} THEN NoIntG("TypeError")
               \* the test of the extraneous names is guarded by missing_args,
               \* empty here
               ELSE [err |-> "", kernel_arguments |-> all.args,
                     qbx_forced_limit |-> qbx_forced_limit]

\* ------------------------------------------------------------------------
\* The matrix of an operator applied to a density
\* ------------------------------------------------------------------------
\* the number a matrix builder puts at (r, c) of the block with this id:
\* the coefficient of entry c of the input in entry r of the output
Coef(id, r, c) == id * 100 + r * 10 + c
EntryValue(entry) == IF entry = ZeroEntry THEN 0 ELSE Coef(entry[1], entry[2], entry[3])
\* mat.dot(x)
RECURSIVE DotRow(_, _, _, _)
DotRow(mat, x, p, q) ==
    IF q = 0 THEN 0
    ELSE DotRow(mat, x, p, q - 1) + EntryValue(mat.at[<<p, q>>]) * x[q]
dot(mat, x) == [p \in 1..mat.shape[1] |-> DotRow(mat, x, p, mat.shape[2])]
\* np.hstack(u) of the densities tried: the unit vector q, or 1, 2, 3, ...
\* when q is 0
Density(n, q) == [k \in 1..n |-> IF q = 0 THEN k ELSE IF k = q THEN 1 ELSE 0]

\* ------------------------------------------------------------------------
\* Initial state and actions
\* ------------------------------------------------------------------------
Places(a, b) ==
    [n \in Keys |-> IF n = "a" THEN a ELSE IF n = "b" THEN b ELSE NoGeom]
InitPlaces == {Places("qbx", "lpot"), Places("qbx", NoGeom), Places("qbxnr", "tgt")}
MergeDicts == {EmptyPlaces, Places("lpot", "discr")}
AutoWhereArgs == {NoAutoWhere, <<Raw("b"), Raw("a")>>}

\* one collection constructed from a mapping of placeSet with an auto_where
\* hint of hintSet; no bound expression yet; empty timing_data dictionaries
InitObjects(placeSet, hintSet) ==
    /\ \E p \in placeSet :
          dicts = [d \in CollIds |-> IF d = 1 THEN p ELSE EmptyPlaces]
    /\ \E aw \in hintSet :
          colls = [g \in CollIds |->
                     IF g = 1 THEN GeometryCollection(1, aw) ELSE NoColl]
    /\ bexprs = [b \in BoundIds |-> NoBound]
    /\ tds = [t \in TimingIds |-> EmptyMap]
    /\ ops = [m \in OpIds |-> NoOp]
    /\ ghost = [refine |-> [g \in CollIds |-> [k \in Keys \X Stages |-> 0]],
                computed |-> [b \in BoundIds |-> [e \in CseIds |-> 0]]]
InitWith(placeSet, hintSet) ==
    /\ InitObjects(placeSet, hintSet)
    /\ last = [op |-> "init"]

Init == InitWith(InitPlaces, {NoAutoWhere})
InitGeom == InitWith(InitPlaces, AutoWhereArgs)
InitShare == InitWith({Places("qbx", "lpot")}, {NoAutoWhere})
InitMatVec == InitWith({Places("qbx", "lpot")}, AutoWhereArgs)

\* the identity of the next object and of the next mapping
NewColl == CHOOSE g \in CollIds \ LiveColls : \A h \in CollIds \ LiveColls : g <= h
NewRef == CHOOSE d \in CollIds :
            /\ \A g \in LiveColls : colls[g].places # d
            /\ \A d2 \in CollIds : (\A g \in LiveColls : colls[g].places # d2) => d <= d2
NewBound == CHOOSE b \in BoundIds \ LiveBounds : \A c \in BoundIds \ LiveBounds : b <= c

GetDiscretization(g, geometry, stageArg, lower) ==
    LET r == get_discretization(dicts, colls[g], g, geometry, stageArg,
                                ghost.refine[g], lower)
    IN /\ g \in LiveColls
       /\ \A k \in Keys \X Stages : ghost.refine[g][k] < MaxCount
       /\ colls' = [colls EXCEPT ![g] = r.coll]
       /\ ghost' = [ghost EXCEPT !.refine[g] =
                        [k \in Keys \X Stages |->
                            IF k \in r.refined THEN @[k] + 1 ELSE @[k]]]
       /\ last' = [op |-> "get_discretization", coll |-> g, geometry |-> geometry,
                   stageArg |-> stageArg, ret |-> r.ret, invoked |-> r.refined # {}]
       /\ UNCHANGED <<dicts, bexprs, tds, ops>>

Copy(g, auto_where) ==
    /\ g \in LiveColls
    /\ LiveColls # CollIds
    /\ \E r \in {copy(dicts, colls[g], NoPlacesArg, auto_where, NewRef)} :
          /\ colls' = IF r.err = "" THEN [colls EXCEPT ![NewColl] = r.coll] ELSE colls
          /\ dicts' = IF r.err = "" THEN r.dicts ELSE dicts
          /\ last' = [op |-> "copy", coll |-> g,
                      new |-> IF r.err = "" THEN NewColl ELSE 0,
                      auto_where |-> auto_where, err |-> r.err]
    /\ UNCHANGED <<bexprs, tds, ghost, ops>>

\* merge with a mapping
MergeDict(g, other) ==
    /\ g \in LiveColls
    /\ LiveColls # CollIds
    /\ \E r \in {merge(dicts, colls[g], other, FALSE, NewRef)} :
          /\ colls' = IF r.err = "" THEN [colls EXCEPT ![NewColl] = r.coll] ELSE colls
          /\ dicts' = IF r.err = "" THEN r.dicts ELSE dicts
          /\ last' = [op |-> "merge", coll |-> g,
                      new |-> IF r.err = "" THEN NewColl ELSE 0,
                      other |-> other, otherColl |-> 0, err |-> r.err]
    /\ UNCHANGED <<bexprs, tds, ghost, ops>>

\* merge with another collection
MergeColl(g, h) ==
    /\ g \in LiveColls
    /\ h \in LiveColls
    /\ LiveColls # CollIds
    /\ \E r \in {merge(dicts, colls[g], dicts[colls[h].places], TRUE, NewRef)} :
          /\ colls' = IF r.err = "" THEN [colls EXCEPT ![NewColl] = r.coll] ELSE colls
          /\ dicts' = IF r.err = "" THEN r.dicts ELSE dicts
          /\ last' = [op |-> "merge", coll |-> g,
                      new |-> IF r.err = "" THEN NewColl ELSE 0,
                      other |-> dicts[colls[h].places], otherColl |-> h,
                      err |-> r.err]
    /\ UNCHANGED <<bexprs, tds, ghost, ops>>

\* GeometryCollection(places, auto_where=auto_where) called directly
Construct(placesArg, auto_where) ==
    /\ LiveColls # CollIds
    /\ \E r \in {GeometryCollection_init(placesArg, auto_where, NewRef)} :
          /\ colls' = IF r.err = "" THEN [colls EXCEPT ![NewColl] = r.coll] ELSE colls
          /\ dicts' = IF r.err = "" THEN [dicts EXCEPT ![NewRef] = r.places] ELSE dicts
          /\ last' = [op |-> "construct", arg |-> placesArg,
                      auto_where |-> auto_where,
                      new |-> IF r.err = "" THEN NewColl ELSE 0, err |-> r.err]
    /\ UNCHANGED <<bexprs, tds, ghost, ops>>

\* a read of the property GeometryCollection.ambient_dim
AmbientDim(g) ==
    /\ g \in LiveColls
    /\ last' = [op |-> "ambient_dim", coll |-> g, ret |-> ambient_dim(dicts, colls[g])]
    /\ UNCHANGED <<dicts, colls, bexprs, tds, ghost, ops>>

\* bind(places, expr) with places a GeometryCollection; code is what the
\* compiler makes of the prepared expression
Bind(g, code, auto_where) ==
    /\ g \in LiveColls
    /\ LiveBounds # BoundIds
    /\ bexprs' = [bexprs EXCEPT ![NewBound] = BoundExpression(g, code)]
    /\ last' = [op |-> "bind", coll |-> g, new |-> NewBound, raw |-> FALSE,
                auto_where |-> auto_where, collwhere |-> colls[g].auto_where,
                tagged |-> _prepare_expr(colls[g], auto_where), err |-> ""]
    /\ UNCHANGED <<dicts, colls, tds, ghost, ops>>

\* bind(places, expr, auto_where) with places anything the constructor
\* takes: the collection is made first and its auto_where replaces the
\* argument
BindRaw(placesArg, code, auto_where) ==
    /\ LiveColls # CollIds
    /\ LiveBounds # BoundIds
    /\ \E r \in {GeometryCollection_init(placesArg, auto_where, NewRef)} :
          /\ colls' = IF r.err = "" THEN [colls EXCEPT ![NewColl] = r.coll] ELSE colls
          /\ dicts' = IF r.err = "" THEN [dicts EXCEPT ![NewRef] = r.places] ELSE dicts
          /\ bexprs' = IF r.err = ""
                       THEN [bexprs EXCEPT ![NewBound] = BoundExpression(NewColl, code)]
                       ELSE bexprs
          /\ last' = [op |-> "bind", coll |-> IF r.err = "" THEN NewColl ELSE 0,
                      new |-> IF r.err = "" THEN NewBound ELSE 0, raw |-> TRUE,
                      arg |-> placesArg,
                      auto_where |-> auto_where,
                      collwhere |-> IF r.err = "" THEN r.coll.auto_where ELSE <<>>,
                      tagged |-> IF r.err = ""
                                 THEN _prepare_expr(r.coll, r.coll.auto_where)
                                 ELSE <<>>,
                      err |-> r.err]
    /\ UNCHANGED <<tds, ghost, ops>>

\* build_matrix(queue, places, expr, input_expr, domains, auto_where) with
\* places a GeometryCollection
BuildMatrix(g, auto_where, domains, block) ==
    /\ g \in LiveColls
    /\ \A k \in Keys \X Stages : ghost.refine[g][k] < MaxCount
    /\ \E r \in {build_matrix(dicts, colls[g], g, ghost.refine[g], auto_where,
                              domains, block)} :
          /\ colls' = [colls EXCEPT ![g] = r.coll]
          /\ ghost' = [ghost EXCEPT !.refine[g] =
                          [k \in Keys \X Stages |->
                              IF k \in r.refined THEN @[k] + 1 ELSE @[k]]]
          /\ last' = [op |-> "build_matrix", coll |-> g, raw |-> FALSE,
                      auto_where |-> auto_where, collwhere |-> colls[g].auto_where,
                      tagged |-> r.tagged, err |-> r.err, ret |-> r.ret]
    /\ UNCHANGED <<dicts, bexprs, tds, ops>>

\* build_matrix with places anything the constructor takes: the collection
\* it makes is gone when the call returns
BuildMatrixRaw(placesArg, auto_where, domains, block) ==
    /\ LiveColls # CollIds
    /\ \E c \in {GeometryCollection_init(placesArg, auto_where, NewRef)} :
          IF c.err # ""
          THEN last' = [op |-> "build_matrix", coll |-> 0, raw |-> TRUE,
                        arg |-> placesArg,
                        auto_where |-> auto_where, collwhere |-> <<>>,
                        tagged |-> <<>>, err |-> c.err, ret |-> NoMatrix(c.err)]
          ELSE \E r \in {build_matrix([dicts EXCEPT ![NewRef] = c.places], c.coll,
                                      NewColl, ghost.refine[NewColl], auto_where,
                                      domains, block)} :
                  last' = [op |-> "build_matrix", coll |-> 0, raw |-> TRUE,
                           arg |-> placesArg,
                           auto_where |-> auto_where,
                           collwhere |-> c.coll.auto_where,
                           tagged |-> r.tagged, err |-> r.err, ret |-> r.ret]
    /\ UNCHANGED <<dicts, colls, bexprs, tds, ops, ghost>>

Eval(b, x, td) ==
    /\ b \in LiveBounds
    /\ \E st \in {eval(b, Context(x), td)} :
          /\ colls' = st.colls
          /\ bexprs' = st.bexprs
          /\ ghost' = st.ghost
          /\ tds' = IF td = NoTiming THEN tds ELSE [tds EXCEPT ![td] = st.timing]
          /\ last' = [op |-> "eval", b |-> b, x |-> x, td |-> td,
                      err |-> st.err,
                      result |-> IF Ok(st) THEN st.val ELSE Unbound,
                      asked |-> st.asked, ncomp |-> st.ncomp, done |-> st.done,
                      tdBefore |-> IF td = NoTiming THEN {} ELSE DOMAIN tds[td]]
    /\ UNCHANGED <<dicts, ops>>

GetModeledCost(b, x) ==
    /\ b \in LiveBounds
    /\ \E st \in {get_modeled_cost(b, Context(x))} :
          /\ colls' = st.colls
          /\ bexprs' = st.bexprs
          /\ ghost' = st.ghost
          /\ last' = [op |-> "get_modeled_cost", b |-> b, x |-> x,
                      err |-> st.err,
                      result |-> IF Ok(st) THEN st.modeled_cost ELSE EmptyMap,
                      ncomp |-> st.ncomp, done |-> st.done]
    /\ UNCHANGED <<dicts, tds, ops>>

\* GeometryCollection.get_cache(name) called from outside; ret is the
\* content of the mapping that is returned
GetCache(g, name) ==
    /\ g \in LiveColls
    /\ \E caches \in {get_cache(colls[g].caches, name)} :
          /\ colls' = [colls EXCEPT ![g].caches = caches]
          /\ last' = [op |-> "get_cache", owner |-> "coll", id |-> g,
                      name |-> name, ret |-> caches[name]]
    /\ UNCHANGED <<dicts, bexprs, tds, ghost, ops>>

\* BoundExpression.get_cache(name) called from outside
BoundGetCache(b, name) ==
    /\ b \in LiveBounds
    /\ \E caches \in {get_cache(bexprs[b].caches, name)} :
          /\ bexprs' = [bexprs EXCEPT ![b].caches = caches]
          /\ last' = [op |-> "get_cache", owner |-> "bound", id |-> b,
                      name |-> name, ret |-> caches[name]]
    /\ UNCHANGED <<dicts, colls, tds, ghost, ops>>

\* the instruction sequences that exercise common subexpressions and the
\* iterative inverse, and those that hold potential instructions
NewOp == CHOOSE m \in OpIds \ LiveOps : \A n \in OpIds \ LiveOps : m <= n

\* bound.scipy_op(queue, "x", dtype, domains): the lookups of the loop stay
\* in the collection even when a later domain raises
ScipyOp(b, domains, lower) ==
    /\ b \in LiveBounds
    /\ LiveOps # OpIds
    /\ \A k \in Keys \X Stages : ghost.refine[bexprs[b].places][k] < MaxCount
    /\ \E r \in {scipy_op(dicts, colls[bexprs[b].places], bexprs[b].places,
                          bexprs[b].code, domains,
                          ghost.refine[bexprs[b].places], lower)} :
          /\ colls' = [colls EXCEPT ![bexprs[b].places] = r.coll]
          /\ ghost' = [ghost EXCEPT !.refine[bexprs[b].places] =
                          [k \in Keys \X Stages |->
                              IF k \in r.refined THEN @[k] + 1 ELSE @[k]]]
          /\ ops' = IF r.err = ""
                    THEN [ops EXCEPT ![NewOp] =
                            MatVecOp(b, "x", r.total_dofs, r.starts_and_ends)]
                    ELSE ops
          /\ last' = [op |-> "scipy_op", b |-> b, arg |-> domains,
                      domains |-> r.domains, sizes |-> r.sizes,
                      looked |-> r.looked, err |-> r.err,
                      new |-> IF r.err = "" THEN NewOp ELSE 0]
    /\ UNCHANGED <<dicts, bexprs, tds>>

\* op.matvec(x) for a device vector x of the operator's size
MatVec(m, x) ==
    /\ m \in LiveOps
    /\ Len(x) = ops[m].total_dofs
    /\ \E r \in {matvec(ops[m], x)} :
          /\ colls' = r.st.colls
          /\ bexprs' = r.st.bexprs
          /\ ghost' = r.st.ghost
          /\ last' = [op |-> "matvec", m |-> m, x |-> x, passed |-> r.passed,
                      value |-> r.st.val, result |-> r.result,
                      writes |-> r.writes, err |-> r.err]
    /\ UNCHANGED <<dicts, tds, ops>>

\* the end of build_matrix for a grid of blocks the matrix builders made:
\* the dtypes of the array blocks are collected and _bmat assembles
Bmat ==
    /\ last.op = "blocks"
    /\ \E dtypes \in {DtypesFrom(last.blocks, 0)} :
       \E r \in {_bmat(last.blocks, dtypes)} :
          last' = [op |-> "_bmat", blocks |-> last.blocks, dtypes |-> dtypes,
                   ret |-> r]
    /\ UNCHANGED <<dicts, colls, bexprs, tds, ops, ghost>>

\* two descriptors are built from the domains and granularities drawn, and
\* as_dofdesc is applied to the first domain once and again to its result
MakeDescriptors ==
    /\ last.op = "domains"
    /\ \E r1 \in {DOFDescriptor_init(last.d1, last.g1, 1)},
          r2 \in {DOFDescriptor_init(last.d2, last.g2, 2)},
          once \in {as_dofdesc_value(last.d1, 3)} :
          \E twice \in {IF once.err = "" THEN as_dofdesc_value(once.obj, 4) ELSE once} :
             last' = [op |-> "descriptors", d1 |-> last.d1, g1 |-> last.g1,
                      d2 |-> last.d2, g2 |-> last.g2,
                      r1 |-> r1, r2 |-> r2, once |-> once, twice |-> twice,
                      eq |-> IF r1.err = "" /\ r2.err = ""
                             THEN DOFDescriptor_eq(r1.obj, r2.obj) ELSE FALSE,
                      hashes |-> IF r1.err = "" /\ r2.err = ""
                                 THEN <<DOFDescriptor_hash(r1.obj), DOFDescriptor_hash(r2.obj)>>
                                 ELSE <<>>]
    /\ UNCHANGED <<dicts, colls, bexprs, tds, ops, ghost>>

\* map_elementwise_sum, map_elementwise_min or map_elementwise_max on the
\* mesh, granularity and operand drawn
ElementwiseReduction ==
    /\ last.op = "operand"
    /\ \E r \in {_map_elementwise_reduction(last.name, last.groups, last.granularity,
                                            last.operand)} :
          last' = [op |-> "elementwise", name |-> last.name, groups |-> last.groups,
                   granularity |-> last.granularity, operand |-> last.operand,
                   err |-> r.err, result |-> r.result]
    /\ UNCHANGED <<dicts, colls, bexprs, tds, ops, ghost>>

\* IntG(kernel, density, qbx_forced_limit, kernel_arguments=..., **kwargs)
NewIntG ==
    /\ last.op = "arguments"
    /\ \E r \in {IntG_init(last.kernel, last.qbx_forced_limit, last.kernel_arguments,
                           last.kwargs)} :
          last' = [op |-> "IntG", kernel |-> last.kernel,
                   qbx_forced_limit |-> last.qbx_forced_limit,
                   kernel_arguments |-> last.kernel_arguments, kwargs |-> last.kwargs,
                   err |-> r.err, made |-> r]
    /\ UNCHANGED <<dicts, colls, bexprs, tds, ops, ghost>>

\* one evaluation, instruction by instruction.  last holds the engine of
\* the evaluation under way: its position pc in the sequence and its state
RunBind(c) ==
    /\ last.op = "init"
    /\ Bind(1, c, NoAutoWhere)

\* eval(queue, context, timing_data) is entered: a fresh engine, nothing
\* executed yet
StartEval(b, context, td) ==
    /\ last.op \in {"bind", "complete", "failed"}
    /\ b \in LiveBounds
    /\ \A e \in CseIds : ghost.computed[b][e] < MaxCount
    /\ last' = [op |-> "executing", b |-> b, context |-> context, td |-> td,
                tdBefore |-> IF td = NoTiming THEN {} ELSE DOMAIN tds[td],
                pc |-> 1,
                st |-> Engine("eval", b, context,
                              IF td = NoTiming THEN EmptyMap ELSE tds[td],
                              td # NoTiming)]
    /\ UNCHANGED <<dicts, colls, bexprs, tds, ops, ghost>>

\* the next instruction is executed and binds its outputs, or raises
ExecInsn ==
    /\ last.op = "executing"
    /\ last.pc <= Len(Codes[bexprs[last.b].code].insns)
    /\ \E s \in {ExecStep(bexprs[last.b].code, last.pc, last.st)} :
          /\ colls' = s.colls
          /\ bexprs' = s.bexprs
          /\ ghost' = s.ghost
          /\ tds' = IF last.td = NoTiming THEN tds ELSE [tds EXCEPT ![last.td] = s.timing]
          /\ last' = IF Ok(s)
                     THEN [last EXCEPT !.pc = @ + 1, !.st = s]
                     ELSE [last EXCEPT !.op = "failed", !.st = s]
    /\ UNCHANGED <<dicts, ops>>

\* the sequence is exhausted: the result is read and returned
Complete ==
    /\ last.op = "executing"
    /\ last.pc > Len(Codes[bexprs[last.b].code].insns)
    /\ \E s \in {ExecResult(bexprs[last.b].code, last.st)} :
          last' = [last EXCEPT !.op = IF Ok(s) THEN "complete" ELSE "failed", !.st = s]
    /\ UNCHANGED <<dicts, colls, bexprs, tds, ops, ghost>>

\* mat.dot(np.hstack(u)) for the matrix build_matrix returned
Dot(q) ==
    /\ last.op = "_bmat"
    /\ last.ret.err = ""
    /\ q <= last.ret.shape[2]
    /\ \E x \in {Density(last.ret.shape[2], q)} :
          last' = [op |-> "dot", blocks |-> last.blocks, mat |-> last.ret, x |-> x,
                   res_mat |-> dot(last.ret, x)]
    /\ UNCHANGED <<dicts, colls, bexprs, tds, ops, ghost>>

CseCodes == {1, 2, 3, 7}
PotentialCodes == {4, 5, 6}
Contexts == CtxValues \cup {Unbound}
PotentialContexts == {1, Unbound}
\* the cache names callers ask for
CallerCacheNames == {_GEOMETRY_COLLECTION_DISCR_CACHE_NAME, CseCacheName, "user"}
\* what callers hand to the constructor, sound and unsound
KeyPlaces(k, o) == [n \in Keys |-> IF n = k THEN o ELSE NoGeom]
ConstructArgs ==
    {ObjectArg(o) : o \in {"qbx", "lpot", "tgt", "discr", "array"}}
    \cup {TupleArg("qbx", "tgt"), TupleArg("lpot", "tgt3"), TupleArg("qbx", "array")}
    \cup {DictArg(Places("qbx", "tgt")), DictArg(Places("discr", "tgt3")),
          DictArg(Places("array", "tgt")),
          DictArg(KeyPlaces("for", "tgt")), DictArg(KeyPlaces("1x", "qbx")),
          DictArg(KeyPlaces(DEFAULT_SOURCE, "lpot"))}
ConstructWhere == {NoAutoWhere, <<Raw("a")>>, <<Raw("a"), Raw("b")>>,
                   <<Raw("for"), Raw("b")>>}
ConstructMergeDicts == {KeyPlaces("b", "tgt3"), KeyPlaces("for", "tgt"),
                        KeyPlaces("b", "array"), KeyPlaces(DEFAULT_TARGET, "tgt")}
MatVecCodes == {8, 9, 10}
DomainArgs ==
    {NoDomains,
     DomainScalar(Raw("a")),
     DomainScalar(DOFDescriptor("b", NoStage)),
     DomainList(<<Raw("b")>>),
     DomainList(<<Raw("a"), Raw("b")>>),
     DomainList(<<NoneDomain, Raw("a")>>)}
Vectors(n) == [1..n -> CtxValues]
RawArgs ==
    {ObjectArg("qbx"), ObjectArg("discr"), ObjectArg("tgt"),
     TupleArg("qbx", "tgt"), DictArg(Places("qbx", "lpot"))}
BindWhere == {NoAutoWhere, <<Raw("a")>>, <<Raw("a"), Raw("b")>>}
MatrixDomains == {NoDomains, DomainList(<<Raw("a")>>), DomainList(<<NoneDomain>>)}
MatrixBlocks == {ZeroBlock, ArrayBlock(2, 1, "complex128", 1)}
DomainValues ==
    {StrValue("a"), StrValue("b"), ClassValue(DEFAULT_SOURCE), ClassValue(DEFAULT_TARGET),
     ClassValue("object"),
     DOMAIN_TAG("DOMAIN_TAG", StrValue("a")), DOMAIN_TAG("QBX_DOMAIN_STAGE2", StrValue("a")),
     DOMAIN_TAG("DEFAULT_SOURCE", StrValue("a")),
     NoneValue, OtherValue}
GranularityValues ==
    {NoGranularity, QBX_DOF_NODE, QBX_DOF_CENTER, QBX_DOF_ELEMENT, "QBX_DOF_OTHER"}
Meshes ==
    {<<Group(1, 1)>>, <<Group(2, 2)>>, <<Group(1, 2), Group(2, 1)>>,
     <<Group(2, 1), Group(1, 2)>>}
OperandValues == {1, 2, 4}
ReductionNames == {"sum", "min", "max"}
Granularities == {QBX_DOF_NODE, QBX_DOF_CENTER, QBX_DOF_ELEMENT}
ArgNames == {"a", "k", "zz"}
Kernels == {Kernel(names, bound) : names \in SUBSET {"a", "k"}, bound \in SUBSET {"a", "k"}}
LimitValues == ForcedLimits \cup {"0", "+3", "wrong"}
ArgumentMappings == {NoArguments} \cup {Arguments(names, "mapping") : names \in SUBSET ArgNames}
\* the sequences that are run and the contexts they are run with
RunCodes == {1, 4, 5, 6, 11}
RunInputs == {<<c, Context(x)>> : c \in RunCodes, x \in Contexts}
GridShapes == {<<1, 1>>, <<1, 2>>, <<2, 1>>, <<2, 2>>}
BlockKinds ==
    {ZeroBlock} \cup
    {ArrayBlock(r, c, t, 0) : r \in 1..MaxBlockDim, c \in 1..MaxBlockDim, t \in Dtypes}
\* the grids of one shape, every array block with an id of its own
Grids(sh) ==
    {[i \in 1..sh[1] |-> [j \in 1..sh[2] |->
         IF is_zero(g[i][j]) THEN ZeroBlock
         ELSE [g[i][j] EXCEPT !.id = (i - 1) * sh[2] + j]]] :
        g \in [1..sh[1] -> [1..sh[2] -> BlockKinds]]}
ShareStages == {NoStage, QBX_SOURCE_STAGE2}

\* operations on geometry collections
NextGeom ==
    \/ \E g \in CollIds, n \in Names, s \in StageArgs, lower \in BOOLEAN :
          GetDiscretization(g, n, s, lower)
    \/ \E g \in CollIds, aw \in AutoWhereArgs : Copy(g, aw)
    \/ \E g \in CollIds, other \in MergeDicts : MergeDict(g, other)
    \/ \E g, h \in CollIds : MergeColl(g, h)

\* evaluation of expressions with common subexpressions
NextCse ==
    \/ \E g \in CollIds : Copy(g, NoAutoWhere)
    \/ \E g \in CollIds, c \in CseCodes : Bind(g, c, NoAutoWhere)
    \/ \E b \in BoundIds, x \in Contexts : Eval(b, x, NoTiming)

\* evaluation of potential instructions, with timing and cost model
NextPotential ==
    \/ \E g \in CollIds, c \in PotentialCodes : Bind(g, c, NoAutoWhere)
    \/ \E b \in BoundIds, x \in PotentialContexts, td \in TimingIds \cup {NoTiming} :
          Eval(b, x, td)
    \/ \E b \in BoundIds, x \in PotentialContexts : GetModeledCost(b, x)

\* collections that are copied and merged while their caches fill
NextShare ==
    \/ \E g \in CollIds, s \in ShareStages : GetDiscretization(g, "a", s, TRUE)
    \/ \E g \in CollIds : Copy(g, NoAutoWhere)
    \/ \E g \in CollIds : MergeDict(g, Places("lpot", "discr"))
    \/ \E g \in CollIds : Bind(g, 2, NoAutoWhere)
    \/ \E b \in BoundIds : Eval(b, 1, NoTiming)

\* construction of collections from every form of places
NextConstruct ==
    \/ \E arg \in ConstructArgs, aw \in ConstructWhere : Construct(arg, aw)
    \/ \E g \in CollIds : Copy(g, NoAutoWhere)
    \/ \E g \in CollIds, other \in ConstructMergeDicts : MergeDict(g, other)
    \/ \E g \in CollIds : AmbientDim(g)

\* caches that are asked for by name while the library fills them
NextCache ==
    \/ \E g \in CollIds : GetDiscretization(g, "a", NoStage, FALSE)
    \/ \E g \in CollIds : Bind(g, 1, NoAutoWhere)
    \/ \E b \in BoundIds : Eval(b, 1, NoTiming)
    \/ \E g \in CollIds, n \in CallerCacheNames : GetCache(g, n)
    \/ \E b \in BoundIds, n \in CallerCacheNames : BoundGetCache(b, n)

\* operators made from bound expressions and applied to vectors
NextMatVec ==
    \/ \E g \in CollIds, c \in MatVecCodes : Bind(g, c, NoAutoWhere)
    \/ \E b \in BoundIds, d \in DomainArgs : ScipyOp(b, d, FALSE)
    \/ \E m \in OpIds : \E x \in Vectors(ops[m].total_dofs) : MatVec(m, x)

\* expressions bound and matrices built with an auto_where hint, on a
\* collection and on what a collection is made from
NextBind ==
    \/ \E g \in CollIds, aw \in BindWhere : Bind(g, 1, aw)
    \/ \E p \in RawArgs, aw \in BindWhere : BindRaw(p, 1, aw)
    \/ \E g \in CollIds, aw \in BindWhere, d \in MatrixDomains, k \in MatrixBlocks :
          BuildMatrix(g, aw, d, k)
    \/ \E p \in RawArgs, aw \in BindWhere, d \in MatrixDomains, k \in MatrixBlocks :
          BuildMatrixRaw(p, aw, d, k)

\* a grid of blocks that the matrix builders have made, ready for assembly
InitBmat ==
    /\ InitObjects({Places("qbx", "lpot")}, {NoAutoWhere})
    /\ \E sh \in GridShapes : \E blocks \in Grids(sh) :
          last = [op |-> "blocks", blocks |-> blocks]

\* block matrices assembled from grids of blocks
NextBmat == Bmat

\* domains and granularities from which descriptors are to be built
InitDesc ==
    /\ InitObjects({Places("qbx", "lpot")}, {NoAutoWhere})
    /\ \E d1 \in DomainValues, d2 \in DomainValues,
          g1 \in GranularityValues, g2 \in GranularityValues :
          last = [op |-> "domains", d1 |-> d1, g1 |-> g1, d2 |-> d2, g2 |-> g2]
NextDesc == MakeDescriptors

\* a mesh, a reduction, a granularity and an operand, of the size of the
\* discretization or one entry longer
InitReduce ==
    /\ InitObjects({Places("qbx", "lpot")}, {NoAutoWhere})
    /\ \E groups \in Meshes, name \in ReductionNames, granularity \in Granularities :
       \E n \in {discr_nnodes(groups), discr_nnodes(groups) + 1} :
       \E operand \in [1..n -> OperandValues] :
          last = [op |-> "operand", name |-> name, groups |-> groups,
                  granularity |-> granularity, operand |-> operand]
NextReduce == ElementwiseReduction

\* a kernel, a limit, a kernel_arguments mapping and keyword arguments
InitIntG ==
    /\ InitObjects({Places("qbx", "lpot")}, {NoAutoWhere})
    /\ \E kernel \in Kernels, qbx_forced_limit \in LimitValues,
          kernel_arguments \in ArgumentMappings, kwargs \in SUBSET ArgNames :
          last = [op |-> "arguments", kernel |-> kernel,
                  qbx_forced_limit |-> qbx_forced_limit,
                  kernel_arguments |-> kernel_arguments, kwargs |-> kwargs]
NextIntG == NewIntG

\* every operation of a collection and of a bound expression, on
\* collections whose caches fill
NextFrame ==
    \/ \E g \in CollIds : GetDiscretization(g, "a", QBX_SOURCE_STAGE2, TRUE)
    \/ \E g \in CollIds : Copy(g, NoAutoWhere)
    \/ \E g \in CollIds : MergeDict(g, Places("lpot", "discr"))
    \/ \E g \in CollIds : Bind(g, 2, NoAutoWhere)
    \/ \E b \in BoundIds : Eval(b, 1, NoTiming)
    \/ \E b \in BoundIds : GetModeledCost(b, 1)
    \/ \E g \in CollIds : GetCache(g, CseCacheName)
    \/ \E b \in BoundIds : ScipyOp(b, DomainList(<<Raw("a")>>), FALSE)
    \/ \E m \in OpIds : \E x \in Vectors(ops[m].total_dofs) : MatVec(m, x)

\* evaluations that run one instruction at a time
Advance == ExecInsn \/ Complete
NextRun ==
    \/ \E c \in RunCodes : RunBind(c)
    \/ \E b \in BoundIds, i \in RunInputs, td \in TimingIds \cup {NoTiming} :
          /\ bexprs[b].code = i[1]
          /\ StartEval(b, i[2], td)
    \/ ExecInsn
    \/ Complete

\* matrices assembled from grids of blocks and applied to densities
NextMatrix ==
    \/ Bmat
    \/ \E q \in 0..(2 * MaxBlockDim) : Dot(q)

Next == NextGeom \/ NextCse \/ NextPotential \/ NextShare \/ NextConstruct
        \/ NextCache \/ NextMatVec \/ NextBind \/ NextBmat \/ NextDesc \/ NextReduce \/ NextIntG \/ NextFrame \/ NextRun \/ NextMatrix

Spec == InitGeom /\ [][Next]_vars
SpecGeom == InitGeom /\ [][NextGeom]_vars
SpecCse == InitShare /\ [][NextCse]_vars
SpecPotential == Init /\ [][NextPotential]_vars
SpecShare == InitShare /\ [][NextShare]_vars
SpecConstruct == InitShare /\ [][NextConstruct]_vars
SpecCache == InitShare /\ [][NextCache]_vars
SpecMatVec == InitMatVec /\ [][NextMatVec]_vars
SpecBind == InitMatVec /\ [][NextBind]_vars
SpecBmat == InitBmat /\ [][NextBmat]_vars
SpecMatrix == InitBmat /\ [][NextMatrix]_vars
SpecRun == Init /\ [][NextRun]_vars
\* the loop of an evaluation under way goes on: it is one synchronous call
SpecRunFair == SpecRun /\ WF_vars(Advance)
SpecFrame == InitShare /\ [][NextFrame]_vars
SpecIntG == InitIntG /\ [][NextIntG]_vars
SpecReduce == InitReduce /\ [][NextReduce]_vars
SpecDesc == InitDesc /\ [][NextDesc]_vars

\* ------------------------------------------------------------------------
\* Properties
\* ------------------------------------------------------------------------
CodeOf(b) == bexprs[b].code
\* the "cse" cache of a bound expression and of a collection
BoundCse(b) ==
    IF Has(bexprs[b].caches, CseCacheName) THEN bexprs[b].caches[CseCacheName]
    ELSE EmptyMap
CollCse(g) ==
    IF Has(colls[g].caches, CseCacheName) THEN colls[g].caches[CseCacheName]
    ELSE EmptyMap
CollDiscrs(g) ==
    IF Has(colls[g].caches, _GEOMETRY_COLLECTION_DISCR_CACHE_NAME)
    THEN colls[g].caches[_GEOMETRY_COLLECTION_DISCR_CACHE_NAME]
    ELSE EmptyMap
ExprScoped == {e \in CseIds : Exprs[e].scope = cse_scope_EXPRESSION}

\* C1: in one bound expression the child of an expression-scope common
\* subexpression is computed and stored at most once, exactly when its key
\* enters the bound expression's cache; a stored value is never changed, and
\* every later eval that reaches the node evaluates the child no more and
\* returns the stored value.
C1_Once ==
    \A b \in LiveBounds : \A e \in ExprScoped :
        /\ ghost.computed[b][e] <= 1
        /\ (ghost.computed[b][e] = 1) <=> Has(BoundCse(b), Exprs[e].child)
C1_Step ==
    \A b \in LiveBounds : \A e \in ExprScoped :
        LET k == Exprs[e].child
            reached == last'.op = "eval" /\ last'.b = b /\ CodeOf(b) = 1 /\ e = 3
        IN /\ Has(BoundCse(b), k) =>
                /\ Has(BoundCse(b)', k)
                /\ BoundCse(b)'[k] = BoundCse(b)[k]
                /\ reached =>
                      /\ last'.ncomp[e] = 0
                      /\ last'.err = ""
                      /\ last'.result = BoundCse(b)[k]
           /\ (~Has(BoundCse(b), k) /\ reached /\ last'.err = "") =>
                /\ last'.ncomp[e] = 1
                /\ Has(BoundCse(b)', k)
                /\ last'.result = BoundCse(b)'[k]
C1_Memoized == [](C1_Once) /\ [][C1_Step]_vars
\* a later eval of a bound expression found the value stored by an earlier one
C1_Witness ==
    /\ last.op = "eval"
    /\ CodeOf(last.b) = 1
    /\ last.ncomp[3] = 0
    /\ ghost.computed[last.b][3] = 1
    /\ last.result = BoundCse(last.b)[1]

\* what a first evaluation with the context x returns: the evaluation of
\* the same instruction sequence with nothing cached anywhere
FirstEvalResult(b, x) ==
    LET fresh == [Engine("eval", b, Context(x), EmptyMap, FALSE) EXCEPT
                      !.bexprs[b].caches = EmptyMap,
                      !.colls = [g \in CollIds |-> [colls[g] EXCEPT !.caches = EmptyMap]]]
        st == execute(CodeOf(b), fresh)
    IN IF Ok(st) THEN st.val ELSE Unbound

\* C2: the value an eval returns is the value determined by the context of
\* that call alone, the one a first evaluation with that context returns.
C2_ContextAlone ==
    (last.op = "eval" /\ last.x # Unbound) =>
        last.result = FirstEvalResult(last.b, last.x)

\* C4: a common subexpression is cached according to its scope.  Expression
\* scope: an eval touches no other bound expression and no collection, and
\* computes the child itself unless its own cache holds it.  Discretization
\* scope: the value is looked up and stored in the collection's cache, so a
\* value stored through one bound expression is returned to every bound
\* expression over that collection, and the bound expression's own caches and
\* the other collections stay as they are.  Any other scope: nothing is
\* stored and the child is evaluated at every occurrence.
C4_Step ==
    \A b \in LiveBounds :
        (last'.op = "eval" /\ last'.b = b) =>
            LET g == bexprs[b].places
            IN /\ CodeOf(b) = 1 =>
                    /\ colls' = colls
                    /\ \A b2 \in BoundIds \ {b} : bexprs'[b2] = bexprs[b2]
                    /\ (~Has(BoundCse(b), 1) /\ last'.err = "") =>
                          (last'.ncomp[3] = 1 /\ last'.result = last'.x)
               /\ CodeOf(b) = 2 =>
                    /\ bexprs' = bexprs
                    /\ \A h \in CollIds \ {g} : colls'[h] = colls[h]
                    /\ Has(CollCse(g), 1) =>
                          /\ last'.ncomp[4] = 0
                          /\ last'.result = CollCse(g)[1]
                          /\ CollCse(g)' = CollCse(g)
                    /\ (~Has(CollCse(g), 1) /\ last'.err = "") =>
                          /\ last'.ncomp[4] = 1
                          /\ last'.result = last'.x
                          /\ CollCse(g)'[1] = last'.x
               /\ CodeOf(b) = 3 =>
                    /\ colls' = colls
                    /\ bexprs' = bexprs
                    /\ last'.err = "" =>
                          (last'.ncomp[5] = 2 /\ last'.result = 2 * last'.x)
C4_ScopedCaches == [][C4_Step]_vars
\* a bound expression that stored nothing returned the value another bound
\* expression stored in the cache of their collection
C4_Witness ==
    /\ last.op = "eval"
    /\ CodeOf(last.b) = 2
    /\ last.err = ""
    /\ last.ncomp[4] = 0
    /\ ghost.computed[last.b][4] = 0
    /\ \E b2 \in LiveBounds \ {last.b} :
          /\ ghost.computed[b2][4] = 1
          /\ bexprs[b2].places = bexprs[last.b].places

\* C5: the first evaluation of an iterative-inverse node binds its operator
\* and stores the compiled sub-operator in the cache of the evaluating bound
\* expression.
C5_InverseMemo ==
    (last.op = "eval" /\ CodeOf(last.b) = 7 /\ last.x # Unbound) =>
        /\ last.err = ""
        /\ Has(bexprs[last.b].caches, BoundOpCacheName)
        /\ Has(bexprs[last.b].caches[BoundOpCacheName], 7)

\* the geometry a collection holds under a name
PlacesOf(g) == dicts[colls[g].places]
StageKey(geometry, stageArg) ==
    <<geometry, IF stageArg = NoStage THEN QBX_SOURCE_STAGE1 ELSE stageArg>>

\* C3: for every collection and every (name, stage) key the refinement
\* collaborator runs at most once, and only for a refinable source.  A
\* get_discretization call for a refinable source runs it exactly when the
\* key (stage 1 for an omitted stage) is not cached yet and returns the
\* discretization cached under the key, which no later call changes; for a
\* source that disables refinement it never runs and the base discretization
\* is returned whatever the stage.
C3_Inv ==
    /\ \A g \in LiveColls : \A k \in Keys \X Stages :
          /\ ghost.refine[g][k] <= 1
          /\ ghost.refine[g][k] = 1 =>
                (PlacesOf(g)[k[1]] = "qbx" /\ Has(CollDiscrs(g), k))
    /\ last.op = "get_discretization" =>
          LET g == last.coll
              geom == PlacesOf(g)[last.geometry]
              key == StageKey(last.geometry, last.stageArg)
          IN /\ geom = "qbx" =>
                   (Has(CollDiscrs(g), key) /\ last.ret = CollDiscrs(g)[key])
             /\ geom = "qbxnr" =>
                   (~last.invoked /\ last.ret = density_discr(geom))
C3_Step ==
    \A g \in LiveColls :
        (last'.op = "get_discretization" /\ last'.coll = g) =>
            LET geom == PlacesOf(g)[last'.geometry]
                key == StageKey(last'.geometry, last'.stageArg)
            IN /\ geom = "qbx" =>
                     /\ last'.invoked <=> ~Has(CollDiscrs(g), key)
                     /\ ghost'.refine[g][key] =
                           ghost.refine[g][key] + (IF last'.invoked THEN 1 ELSE 0)
                     /\ \A k \in DOMAIN CollDiscrs(g) :
                           /\ Has(CollDiscrs(g)', k)
                           /\ CollDiscrs(g)'[k] = CollDiscrs(g)[k]
                     /\ ~last'.invoked => CollDiscrs(g)' = CollDiscrs(g)
               /\ geom # "qbx" => (~last'.invoked /\ colls' = colls /\ ghost' = ghost)
C3_RefineOnce == [](C3_Inv) /\ [][C3_Step]_vars
\* a call that omits the stage is served from the cache that the one run of
\* the collaborator for the stage-1 key filled
C3_Witness ==
    /\ last.op = "get_discretization"
    /\ last.stageArg = NoStage
    /\ ~last.invoked
    /\ PlacesOf(last.coll)[last.geometry] = "qbx"
    /\ ghost.refine[last.coll][<<last.geometry, QBX_SOURCE_STAGE1>>] = 1
    /\ last.ret = Discr("qbx", QBX_SOURCE_STAGE1, last.coll, 1)

\* C9: merge returns a new collection whose places mapping holds, for every
\* name, the entry of other if other has one and the entry of self if not,
\* and whose auto_where is that of self; the collections that existed
\* before, self and other among them, keep their places mapping, caches and
\* auto_where; merging an empty mapping yields a copy of self.
C9_Inv ==
    last.op = "merge" =>
        LET self == last.coll
            new == last.new
        IN /\ new # self
           /\ colls[new].live
           /\ \A n \in Names :
                 PlacesOf(new)[n] = IF last.other[n] # NoGeom
                                    THEN last.other[n]
                                    ELSE PlacesOf(self)[n]
           /\ colls[new].auto_where = colls[self].auto_where
           /\ PlaceKeys(last.other) = {} => PlacesOf(new) = PlacesOf(self)
C9_Step ==
    last'.op = "merge" =>
        \A g \in LiveColls :
            /\ colls'[g] = colls[g]
            /\ dicts'[colls[g].places] = dicts[colls[g].places]
C9_Merge == [](C9_Inv) /\ [][C9_Step]_vars
\* a merge whose argument collides with an entry of a collection that has
\* an auto_where of its own
C9_Witness ==
    /\ last.op = "merge"
    /\ \E n \in Names :
          /\ last.other[n] # NoGeom
          /\ PlacesOf(last.coll)[n] # NoGeom
          /\ PlacesOf(last.coll)[n] # last.other[n]
          /\ PlacesOf(last.new)[n] = last.other[n]
    /\ colls[last.coll].auto_where[1].geometry = "b"
    /\ colls[last.new].auto_where[1].geometry = "b"

\* C10: a collection made by copy or merge starts with no caches and with a
\* places mapping of its own, and afterwards a call on one collection, or an
\* eval of a bound expression over it, leaves the caches and the places
\* mapping of every other collection as they are.
C10_Inv ==
    \A g, h \in LiveColls : g # h => colls[g].places # colls[h].places
C10_Step ==
    /\ \A g \in CollIds :
          (~colls[g].live /\ colls'[g].live) =>
              /\ colls'[g].caches = EmptyMap
              /\ \A h \in LiveColls : colls'[g].places # colls[h].places
    /\ last'.op = "get_discretization" =>
          /\ dicts' = dicts
          /\ \A h \in CollIds \ {last'.coll} : colls'[h] = colls[h]
    /\ last'.op = "eval" =>
          /\ dicts' = dicts
          /\ \A h \in CollIds \ {bexprs[last'.b].places} : colls'[h] = colls[h]
C10_FreshCaches == [](C10_Inv) /\ [][C10_Step]_vars
\* the copy of a collection that holds a refined discretization and a
\* discretization-scope value has neither
C10_Witness ==
    /\ last.op \in {"copy", "merge"}
    /\ DOMAIN CollDiscrs(last.coll) # {}
    /\ DOMAIN CollCse(last.coll) # {}
    /\ colls[last.new].caches = EmptyMap

\* the source geometry of a potential instruction of a bound expression
SourceOf(b, i) == PlacesOf(bexprs[b].places)[InsnById(i).source]

\* C6: after a successful eval that was given a timing_data mapping, an
\* empty one included, of a sequence that executes each potential
\* instruction once, the mapping holds what it held before and one entry for
\* each potential instruction, keyed by the instruction, and the source was
\* asked for the timing of each; an eval without timing_data asks the source
\* for no timing and changes no mapping.
C6_Inv ==
    last.op = "eval" =>
        LET b == last.b
            P == PotentialInsns(CodeOf(b))
        IN /\ (last.td # NoTiming /\ last.err = "" /\ WellCompiled(CodeOf(b))) =>
                /\ DOMAIN tds[last.td] = last.tdBefore \cup P
                /\ last.tdBefore \cap P = {}
                /\ last.asked = P
                /\ \A i \in P :
                      tds[last.td][i] = TimingOf(SourceOf(b, i), InsnById(i))
           /\ last.td = NoTiming => last.asked = {}
C6_Step ==
    last'.op = "eval" =>
        /\ last'.td = NoTiming => tds' = tds
        /\ \A t \in TimingIds : \A k \in DOMAIN tds[t] :
              /\ Has(tds'[t], k)
              /\ tds'[t][k] = tds[t][k]
C6_Timing == [](C6_Inv) /\ [][C6_Step]_vars
\* an eval given an empty mapping recorded both potential instructions
C6_Witness ==
    /\ last.op = "eval"
    /\ last.td # NoTiming
    /\ last.tdBefore = {}
    /\ last.err = ""
    /\ CodeOf(last.b) = 5
    /\ DOMAIN tds[last.td] = {"I1", "I2"}

\* C7: for a sequence in which no potential instruction occurs twice, no
\* eval fails the duplicate-timing assertion, whatever the contexts and
\* timing_data mappings of the calls.
C7_NoAssertion ==
    (last.op = "eval" /\ WellCompiled(CodeOf(last.b))) =>
        last.err # "AssertionError"

\* C8: a get_modeled_cost call that returns gives a mapping whose keys are
\* the potential instructions of the sequence, each with the cost obtained
\* from its source geometry, and for a sequence in which no potential
\* instruction occurs twice no call fails as a duplicate, however many calls
\* came before.
C8_Inv ==
    last.op = "get_modeled_cost" =>
        LET b == last.b
            P == PotentialInsns(CodeOf(b))
        IN /\ last.err = "" =>
                /\ DOMAIN last.result = P
                /\ \A i \in P :
                      last.result[i] = CostOf(SourceOf(b, i), InsnById(i))
           /\ WellCompiled(CodeOf(b)) => last.err # "AssertionError"
\* a second get_modeled_cost call on one bound expression returned the
\* costs of both potential instructions
C8_Witness ==
    /\ last.op = "get_modeled_cost"
    /\ last.err = ""
    /\ CodeOf(last.b) = 5
    /\ last.ncomp[11] = 0
    /\ BoundCse(last.b)[10] = Placeholder + Placeholder
    /\ DOMAIN last.result = {"I1", "I2"}

\* the ambient dimensions of the geometries of a places mapping
DimsOf(p) == {ambient_dim_of(p[k]) : k \in {n \in Keys : p[n] # NoGeom}}

\* C11: a direct construction that succeeds yields a collection whose
\* geometries share one ambient dimension (a mismatch fails the
\* construction, so that no object exists on which it could show later).
C11_DimChecked ==
    (last.op = "construct" /\ last.err = "") =>
        Cardinality(DimsOf(PlacesOf(last.new))) <= 1

\* the supported kinds of geometry, and the strings among Keys that are
\* identifiers and no reserved keywords
SupportedKinds == {"qbx", "qbxnr", "lpot", "tgt", "tgt3", "discr"}
ValidNames == {"a", "b"}
SoundPlaces(p) ==
    \A k \in Keys :
        p[k] # NoGeom => /\ p[k] \in SupportedKinds
                         /\ (k \in {DEFAULT_SOURCE, DEFAULT_TARGET} \/ k \in ValidNames)
HintKeys(auto_where) ==
    IF auto_where = NoAutoWhere THEN {DEFAULT_SOURCE, DEFAULT_TARGET}
    ELSE {auto_where[i].geometry : i \in 1..Len(auto_where)}

\* C12: every collection that exists maps only to supported kinds of
\* geometry under keys that, when strings, are identifiers and no keywords;
\* a construction, copy or merge whose mapping would break that raises and
\* produces no collection, and a mapping with a key that is no string and a
\* supported geometry is accepted.
C12_Inv == \A g \in LiveColls : SoundPlaces(PlacesOf(g))
C12_Step ==
    /\ (/\ last'.op = "construct"
        /\ \/ last'.arg.form = "dict" /\ ~SoundPlaces(last'.arg.map)
           \/ /\ last'.arg.form = "tuple"
              /\ \/ {last'.arg.src, last'.arg.tgt} \ SupportedKinds # {}
                 \/ HintKeys(last'.auto_where) \ (ValidNames \cup
                        {DEFAULT_SOURCE, DEFAULT_TARGET}) # {})
          => (last'.err # "" /\ colls' = colls)
    /\ (/\ last'.op = "merge"
        /\ ~SoundPlaces(Update(PlacesOf(last'.coll), last'.other)))
          => (last'.err # "" /\ colls' = colls)
    /\ (/\ last'.op = "construct"
        /\ last'.arg = DictArg(KeyPlaces(DEFAULT_SOURCE, "lpot")))
          => (last'.err = "" /\ colls'[last'.new].live)
C12_Validated == [](C12_Inv) /\ [][C12_Step]_vars
\* a mapping with a reserved keyword as key was refused
C12_Witness ==
    /\ last.op = "construct"
    /\ last.arg = DictArg(KeyPlaces("for", "tgt"))
    /\ last.err = "ValueError"
    /\ last.new = 0

\* C13: constructing a collection from one geometry object of a supported
\* kind, with a hint of valid names or none, succeeds, and the auto-source
\* and the auto-target name of the collection both resolve to that object.
C13_SingleGeometry ==
    (/\ last.op = "construct"
     /\ last.arg.form = "object"
     /\ last.arg.obj \in SupportedKinds
     /\ HintKeys(last.auto_where) \subseteq
            ValidNames \cup {DEFAULT_SOURCE, DEFAULT_TARGET})
    => /\ last.err = ""
       /\ get_geometry(dicts, colls[last.new],
                       colls[last.new].auto_where[1].geometry) = last.arg.obj
       /\ get_geometry(dicts, colls[last.new],
                       colls[last.new].auto_where[2].geometry) = last.arg.obj

\* C15: a get_cache call on a collection or on a bound expression returns
\* the mapping stored under the name, with the contents it had before the
\* call or empty when the name is new; every other cache of the owner stays
\* under its own name with its contents, and no other owner changes.
C15_Step ==
    last'.op = "get_cache" =>
        LET n == last'.name
            before == IF last'.owner = "coll" THEN colls[last'.id].caches
                      ELSE bexprs[last'.id].caches
            after == IF last'.owner = "coll" THEN colls'[last'.id].caches
                     ELSE bexprs'[last'.id].caches
        IN /\ Has(after, n)
           /\ last'.ret = after[n]
           /\ after[n] = IF Has(before, n) THEN before[n] ELSE EmptyMap
           /\ DOMAIN after = (DOMAIN before) \cup {n}
           /\ \A m \in DOMAIN before : after[m] = before[m]
           /\ \A g \in CollIds :
                 (last'.owner # "coll" \/ g # last'.id) => colls'[g] = colls[g]
           /\ \A b \in BoundIds :
                 (last'.owner # "bound" \/ b # last'.id) => bexprs'[b] = bexprs[b]
C15_Idempotent == [][C15_Step]_vars
\* a call returned a cache that an evaluation or a refinement had filled
C15_Witness ==
    /\ last.op = "get_cache"
    /\ DOMAIN last.ret # {}
    /\ \E g \in LiveColls : Cardinality(DOMAIN colls[g].caches) > 1

\* the node count of the discretization a prepared domain names in
\* collection g, or 1 for a scalar component
DomainSize(g, d) ==
    IF d = NoneDomain THEN 1
    ELSE nnodes(get_discretization(dicts, colls[g], g, d.geometry, d.discr_stage,
                                   ghost.refine[g], FALSE).ret)

\* C16: the offset table of every operator starts at 0, each start is the
\* previous end and the last end is total_dofs; the table scipy_op has just
\* built has one entry per domain, in order, whose length is the size of
\* that domain; the operator's shape is (total_dofs, total_dofs).
C16_Offsets ==
    /\ \A m \in LiveOps :
          LET t == ops[m].starts_and_ends
          IN /\ Len(t) >= 1
             /\ t[1][1] = 0
             /\ \A i \in 2..Len(t) : t[i][1] = t[i - 1][2]
             /\ t[Len(t)][2] = ops[m].total_dofs
             /\ shape(ops[m]) = <<t[Len(t)][2], t[Len(t)][2]>>
    /\ (last.op = "scipy_op" /\ last.err = "") =>
          LET t == ops[last.new].starts_and_ends
              g == bexprs[last.b].places
          IN /\ Len(t) = Len(last.domains)
             /\ last.arg.form = "list" =>
                   /\ Len(t) = Len(last.arg.items)
                   /\ \A i \in 1..Len(t) : last.domains[i] = as_dofdesc(last.arg.items[i])
             /\ \A i \in 1..Len(t) : t[i][2] - t[i][1] = DomainSize(g, last.domains[i])
\* a table of two domains of different sizes was built
C16_Witness ==
    /\ last.op = "scipy_op"
    /\ last.err = ""
    /\ ops[last.new].starts_and_ends = <<<<0, 1>>, <<1, 3>>>>
    /\ ops[last.new].total_dofs = 3

\* the number of result components of a bound expression
NResults(b) ==
    IF is_obj_array(ObjArrayResult(bexprs[b].code))
    THEN Len(ObjArrayResult(bexprs[b].code)) ELSE 1

\* C17: scipy_op with a domains list of one entry per result component,
\* each entry None or a name of the collection, makes an operator in which
\* every None entry is a segment of size 1 and every other entry has the
\* node count of its discretization.
C17_NoneEntries ==
    (/\ last.op = "scipy_op"
     /\ last.arg.form = "list"
     /\ Len(last.arg.items) = NResults(last.b)
     /\ \A i \in 1..Len(last.arg.items) :
           \/ last.arg.items[i] = NoneDomain
           \/ PlacesOf(bexprs[last.b].places)[last.arg.items[i].geometry] # NoGeom)
    => /\ last.err = ""
       /\ Len(last.sizes) = Len(last.arg.items)
       /\ \A i \in 1..Len(last.arg.items) :
             last.sizes[i] = IF last.arg.items[i] = NoneDomain THEN 1
                             ELSE DomainSize(bexprs[last.b].places,
                                             as_dofdesc(last.arg.items[i]))

\* entries [start, end) of the flat vector x
Segment(x, start, end) == [k \in 1..(end - start) |-> x[start + k]]

\* C18: matvec passes the vector on as it is when the operator has one
\* domain and as the segments [start_i, end_i) when it has more; a joined
\* result has component i at [start_i, end_i) and every index written once;
\* when the expression returns what it was given, the result is the input.
C18_SplitJoin ==
    last.op = "matvec" =>
        LET op == ops[last.m]
            t == op.starts_and_ends
        IN /\ IF Len(t) > 1
              THEN /\ Len(last.passed) = Len(t)
                   /\ \A i \in 1..Len(t) :
                         last.passed[i] = Segment(last.x, t[i][1], t[i][2])
              ELSE last.passed = last.x
           /\ (last.err = "" /\ Len(t) > 1) =>
                 /\ Len(last.result) = op.total_dofs
                 /\ \A k \in 1..op.total_dofs : last.writes[k] = 1
                 /\ \A i \in 1..Len(t) : \A k \in 1..(t[i][2] - t[i][1]) :
                       last.result[t[i][1] + k] = last.value[i][k]
           /\ (last.err = "" /\ Len(t) = 1) => last.result = last.value
           /\ (last.err = "" /\ last.value = last.passed) => last.result = last.x
\* a vector of three different-looking entries went through two segments
\* of sizes 1 and 2 and came back
C18_Witness ==
    /\ last.op = "matvec"
    /\ last.err = ""
    /\ ops[last.m].starts_and_ends = <<<<0, 1>>, <<1, 3>>>>
    /\ last.x = <<1, 2, 1>>
    /\ last.passed = <<<<1>>, <<2, 1>>>>
    /\ last.value = last.passed
    /\ last.result = last.x

\* the non-zero blocks of a grid, by position
NonZero(B) ==
    {p \in (1..nrows(B)) \X (1..ncolumns(B)) : ~is_zero(B[p[1]][p[2]])}
\* two non-zero blocks of one block-row differ in row count, or two of one
\* block-column in column count
ShapeMismatch(B) ==
    \E p, q \in NonZero(B) :
       \/ p[1] = q[1] /\ B[p[1]][p[2]].rows # B[q[1]][q[2]].rows
       \/ p[2] = q[2] /\ B[p[1]][p[2]].cols # B[q[1]][q[2]].cols
\* every block-row and every block-column holds a non-zero block
AllSized(B) ==
    /\ \A i \in 1..nrows(B) : \E p \in NonZero(B) : p[1] = i
    /\ \A j \in 1..ncolumns(B) : \E p \in NonZero(B) : p[2] = j
\* the height of block-row i and the width of block-column j
HeightOf(B, i) == B[i][CHOOSE j \in 1..ncolumns(B) : <<i, j>> \in NonZero(B)].rows
WidthOf(B, j) == B[CHOOSE i \in 1..nrows(B) : <<i, j>> \in NonZero(B)][j].cols
RECURSIVE HeightsBefore(_, _)
HeightsBefore(B, i) == IF i <= 1 THEN 0 ELSE HeightsBefore(B, i - 1) + HeightOf(B, i - 1)
RECURSIVE WidthsBefore(_, _)
WidthsBefore(B, j) == IF j <= 1 THEN 0 ELSE WidthsBefore(B, j - 1) + WidthOf(B, j - 1)

CommonDtype(B) ==
    IF \E p \in NonZero(B) : B[p[1]][p[2]].dtype = "complex128" THEN "complex128"
    ELSE "float64"

\* C20: every grid whose non-zero blocks agree in shape along their
\* block-rows and block-columns, a grid with a block-row or block-column of
\* zeros included, is assembled: the regions of zero blocks are zero and the
\* dtype is the common type of the non-zero blocks.
C20_ZeroBlocks ==
    (last.op = "_bmat" /\ ~ShapeMismatch(last.blocks)) =>
        /\ last.ret.err = ""
        /\ last.ret.dtype = CommonDtype(last.blocks)
        /\ \A i \in 1..nrows(last.blocks), j \in 1..ncolumns(last.blocks) :
              is_zero(last.blocks[i][j]) =>
                 \A p \in DOMAIN last.ret.at :
                    (/\ last.ret.brs[i] < p[1] /\ p[1] <= last.ret.brs[i + 1]
                     /\ last.ret.bcs[j] < p[2] /\ p[2] <= last.ret.bcs[j + 1])
                    => last.ret.at[p] = ZeroEntry

\* the pair the precedence gives: an explicit pair, an explicit single
\* value for both, else the auto_where of the collection
Resolved(auto_where, collwhere) ==
    IF auto_where = NoAutoWhere THEN collwhere
    ELSE IF Len(auto_where) = 2
    THEN <<as_dofdesc(auto_where[1]), as_dofdesc(auto_where[2])>>
    ELSE <<as_dofdesc(auto_where[1]), as_dofdesc(auto_where[1])>>

\* C14: whenever bind or build_matrix has a collection to work on, given or
\* made from a raw geometry, the pair it tags the expression with is the
\* explicit pair as given, else the explicit single value twice, else the
\* auto_where of the collection.
C14_Precedence ==
    (last.op \in {"bind", "build_matrix"} /\ last.collwhere # <<>>) =>
        last.tagged = Resolved(last.auto_where, last.collwhere)

\* C29: a collection constructed from a (source, target) pair, with no
\* hint, a single value or a pair as auto_where, returns the given source
\* for its auto-source name and the given target for its auto-target name.
C29_PairReachable ==
    (last.op = "construct" /\ last.arg.form = "tuple" /\ last.err = "") =>
        /\ get_geometry(dicts, colls[last.new],
                        colls[last.new].auto_where[1].geometry) = last.arg.src
        /\ get_geometry(dicts, colls[last.new],
                        colls[last.new].auto_where[2].geometry) = last.arg.tgt

\* a domain DOFDescriptor recognises, and the tag it becomes
Recognised(d) ==
    \/ d.kind = "str"
    \/ d \in {ClassValue(DEFAULT_SOURCE), ClassValue(DEFAULT_TARGET)}
    \/ d.kind = "tag" /\ d.cls \in TagClasses
TagOf(d) == IF d.kind = "tag" THEN d ELSE DOMAIN_TAG("DOMAIN_TAG", d)
GranOf(g) == IF g = NoGranularity THEN QBX_DOF_NODE ELSE g

\* C24: a descriptor is made exactly from a recognised domain and a
\* granularity of node, center or element (none meaning node); as_dofdesc
\* of the result of as_dofdesc is equal to that result; two descriptors
\* compare equal exactly when their domain tags and granularities are equal,
\* and equal descriptors hash alike although they are different objects.
C24_Descriptors ==
    last.op = "descriptors" =>
        /\ (last.r1.err = "") <=>
              (Recognised(last.d1)
               /\ GranOf(last.g1) \in {QBX_DOF_NODE, QBX_DOF_CENTER, QBX_DOF_ELEMENT})
        /\ last.r1.err # "" => last.r1.err = "ValueError"
        /\ last.once.err = "" =>
              /\ last.twice.err = ""
              /\ DOFDescriptor_eq(last.twice.obj, last.once.obj)
              /\ DOFDescriptor_hash(last.twice.obj) = DOFDescriptor_hash(last.once.obj)
        /\ (last.r1.err = "" /\ last.r2.err = "") =>
              /\ last.r1.obj.oid # last.r2.obj.oid
              /\ last.eq <=> (/\ TagOf(last.d1) = TagOf(last.d2)
                              /\ GranOf(last.g1) = GranOf(last.g2))
              /\ last.eq => last.hashes[1] = last.hashes[2]
\* a descriptor built from the name "a" and one built from DOMAIN_TAG("a")
\* with the node granularity spelled out compared equal
C24_Witness ==
    /\ last.op = "descriptors"
    /\ last.d1 = StrValue("a")
    /\ last.g1 = NoGranularity
    /\ last.d2 = DOMAIN_TAG("DOMAIN_TAG", StrValue("a"))
    /\ last.g2 = QBX_DOF_NODE
    /\ last.eq
    /\ last.hashes[1] = last.hashes[2]
    /\ last.twice.err = ""

\* the nodes of global element e of a mesh, and the reduction of v over a
\* set of nodes
NodesOfElement(groups, e) ==
    LET g == CHOOSE h \in 1..Len(groups) :
                element_nr_base(groups, h) < e /\ e <= element_nr_base(groups, h + 1)
        first == node_nr_base(groups, g)
                 + (e - element_nr_base(groups, g) - 1) * groups[g].nunit_nodes
    IN (first + 1)..(first + groups[g].nunit_nodes)
RECURSIVE SumOver(_, _)
SumOver(v, S) ==
    IF S = {} THEN 0
    ELSE LET k == CHOOSE i \in S : TRUE IN v[k] + SumOver(v, S \ {k})
Reduced(name, v, S) ==
    CASE name = "sum" -> SumOver(v, S)
      [] name = "min" -> CHOOSE m \in {v[k] : k \in S} : \A k \in S : m <= v[k]
      [] OTHER -> CHOOSE m \in {v[k] : k \in S} : \A k \in S : m >= v[k]

C23_Unsupported ==
    (/\ last.op = "elementwise"
     /\ Len(last.operand) = discr_nnodes(last.groups)
     /\ last.granularity \notin {QBX_DOF_NODE, QBX_DOF_ELEMENT}) =>
        /\ last.err = "ValueError"
        /\ last.result = <<>>
\* a maximum was asked for per expansion center
C23_Witness ==
    /\ last.op = "elementwise"
    /\ last.name = "max"
    /\ last.granularity = QBX_DOF_CENTER
    /\ Len(last.operand) = discr_nnodes(last.groups)
    /\ last.err = "ValueError"

\* the names given to a construction through the mapping, the keywords and
\* the kernel itself
GivenNames ==
    (IF last.kernel_arguments.none THEN {} ELSE DOMAIN last.kernel_arguments.args)
    \cup last.kwargs \cup last.kernel.bound
TwiceGiven ==
    LET m == IF last.kernel_arguments.none THEN {} ELSE DOMAIN last.kernel_arguments.args
    IN (m \cap last.kwargs) \cup (m \cap last.kernel.bound)
       \cup (last.kwargs \cap last.kernel.bound)

\* C30: an IntG that was constructed carries exactly the argument names of
\* its kernel and one of the six limits; a construction with a missing
\* argument, a name given twice, a given name that is no argument of the
\* kernel, or another limit fails.
C30_ExactArguments ==
    last.op = "IntG" =>
        /\ last.err = "" =>
              /\ DOMAIN last.made.kernel_arguments = last.kernel.names
              /\ last.made.qbx_forced_limit \in ForcedLimits
        /\ (\/ last.kernel.names \ GivenNames # {}
            \/ TwiceGiven # {}
            \/ GivenNames \ last.kernel.names # {}
            \/ last.qbx_forced_limit \notin ForcedLimits) => last.err # ""

\* every cache of caches and every entry of it is in later, unchanged
CachesKept(caches, later) ==
    \A n \in DOMAIN caches :
        /\ Has(later, n)
        /\ \A k \in DOMAIN caches[n] : Has(later[n], k) /\ later[n][k] = caches[n][k]

\* C26: no operation changes the places mapping of a collection, and no
\* operation removes an entry from a cache of a collection or of a bound
\* expression or puts another value in its place.
C26_Step ==
    /\ \A g \in LiveColls :
          /\ colls'[g].live
          /\ colls'[g].places = colls[g].places
          /\ dicts'[colls[g].places] = dicts[colls[g].places]
          /\ CachesKept(colls[g].caches, colls'[g].caches)
    /\ \A b \in LiveBounds :
          /\ bexprs'[b].live
          /\ bexprs'[b].places = bexprs[b].places
          /\ CachesKept(bexprs[b].caches, bexprs'[b].caches)
C25_NoPartial ==
    /\ (last.op = "eval" /\ last.err # "" /\ WellCompiled(CodeOf(last.b))) =>
          /\ last.result = Unbound
          /\ last.td # NoTiming => DOMAIN tds[last.td] = last.tdBefore
    /\ (last.op = "get_modeled_cost" /\ last.err # "") => last.result = EmptyMap

\* C28: an eval that succeeds after cost-model passes over the collection
\* returns what it returns without them, the value of a first evaluation of
\* the sequence with the same context.
C28_CostModelFrame ==
    (last.op = "eval" /\ last.err = "" /\ WellCompiled(CodeOf(last.b))) =>
        last.result = FirstEvalResult(last.b, last.x)

\* the names the evaluation of the node e reads in the engine state st: a
\* common subexpression found in its cache reads none
RECURSIVE ReadsNow(_, _)
ReadsNow(e, st) ==
    LET expr == Exprs[e]
        cache == IF expr.scope = cse_scope_EXPRESSION
                 THEN st.bexprs[st.b].caches
                 ELSE st.colls[CollOf(st)].caches
    IN CASE expr.kind \in {"var", "index"} -> {expr.name}
         [] expr.kind = "sum" -> ReadsNow(expr.lhs, st) \cup ReadsNow(expr.rhs, st)
         [] expr.kind = "cse" ->
              IF /\ expr.scope \in {cse_scope_EXPRESSION, cse_scope_DISCRETIZATION}
                 /\ Has(cache, CseCacheName)
                 /\ Has(cache[CseCacheName], expr.child)
              THEN {}
              ELSE ReadsNow(expr.child, st)
         [] OTHER -> {}
ReadsOf(insn, st) ==
    IF insn.kind = "assign"
    THEN UNION {ReadsNow(insn.exprs[k], st) : k \in 1..Len(insn.exprs)}
    ELSE ReadsNow(insn.density, st)
RunCode == Codes[bexprs[last.b].code]
Running == last.op \in {"executing", "complete", "failed"}

\* the instructions executed so far are the first pc - 1 of the sequence,
\* once each and in order, and the names they declare are bound; a complete
\* evaluation has executed them all
C27_Inv ==
    Running =>
        /\ last.st.done = [i \in 1..(last.pc - 1) |-> i]
        /\ last.pc <= Len(RunCode.insns) + 1
        /\ \A i \in 1..(last.pc - 1) :
              \A k \in 1..Len(RunCode.insns[i].names) :
                 Has(last.st.env, RunCode.insns[i].names[k])
        /\ last.op = "complete" => last.pc = Len(RunCode.insns) + 1
\* an engine starts with the bindings of the context and nothing executed;
\* an instruction that is executed found every name it reads bound, and
\* binds one value per declared name, in the order of the declaration
C27_Step ==
    /\ (last'.op = "executing" /\ last.op # "executing") =>
          /\ last'.pc = 1
          /\ last'.st.done = <<>>
          /\ last'.st.env = last'.context
    /\ (last.op = "executing" /\ last'.op = "executing" /\ last'.pc # last.pc) =>
          LET insn == RunCode.insns[last.pc]
          IN /\ last'.pc = last.pc + 1
             /\ ReadsOf(insn, last.st) \subseteq DOMAIN last.st.env
             /\ DOMAIN last.st.env \subseteq DOMAIN last'.st.env
             /\ Len(last'.st.assign) = Len(insn.names)
             /\ \A k \in 1..Len(insn.names) :
                   /\ last'.st.assign[k][1] = insn.names[k]
                   /\ last'.st.env[insn.names[k]] = last'.st.assign[k][2]
\* an evaluation whose context binds x, whose potentials have sources that
\* compute them and whose timing_data holds none of its instructions
C27_Runnable ==
    /\ last.op = "executing"
    /\ Has(last.context, "x")
    /\ WellCompiled(bexprs[last.b].code)
    /\ \A i \in 1..Len(RunCode.insns) :
          RunCode.insns[i].kind = "potential" =>
             IsPotentialSource(PlacesOf(bexprs[last.b].places)[RunCode.insns[i].source])
    /\ last.tdBefore \cap PotentialInsns(bexprs[last.b].code) = {}

RECURSIVE SumSeq(_)
SumSeq(s) == IF s = <<>> THEN 0 ELSE Head(s) + SumSeq(Tail(s))
\* entry r of component i of what the operator with the blocks B returns for
\* the densities stacked in x: every block-column acts on its own density
OperatorAt(B, x, i, r) ==
    SumSeq([j \in 1..ncolumns(B) |->
              IF is_zero(B[i][j]) THEN 0
              ELSE SumSeq([c \in 1..B[i][j].cols |->
                             Coef(B[i][j].id, r, c)
                             * Segment(x, WidthsBefore(B, j), WidthsBefore(B, j + 1))[c]])])

====
